---- MODULE Spec2Model ----
(***************************************************************************)
(* Memora: the agent loop (src/core/Agent.ts), its history windowing and   *)
(* the tool registry (src/core/tools/ToolRegistry.ts).                     *)
(*                                                                         *)
(* JavaScript runs process() synchronously between two awaits, so every    *)
(* action below is one resumption of process(): it starts where an awaited *)
(* call (createEmbedding, searchSemanticMemory, chat, tools.execute)       *)
(* delivers its outcome and runs to the next await or to the return.       *)
(***************************************************************************)
EXTENDS Integers, Sequences, FiniteSets, TLC

(* ------------------------------ bounds --------------------------------- *)

\* process() calls made in one behaviour
MaxProcessCalls == 2
\* assistant turns the chat provider produces in one behaviour
MaxAssistantTurns == 2
\* tool calls the chat provider requests in one behaviour (and so in one turn)
MaxToolCallIds == 2
\* longest history drawn for the windowing function on its own
MaxHistLen == 4
\* init() calls made on the shared DatabaseService in one behaviour
MaxInitCalls == 3
\* runs of the memory executors followed
MaxOps == 3
\* rows a table holds when it is searched
MaxRows == 3
\* messages a long history holds beyond the default window
MaxOlder == 5
\* register() calls made on one registry
MaxRegistrations == 3
\* saveMessage() calls made on the store
MaxSaved == 4

(* --------------------------- program constants ------------------------- *)

\* this.maxHistory = config.maxHistory || 20
DefaultMaxHistory == 20

\* dbService.searchSemanticMemory(embedding, 5): the K of proactive retrieval
MemoryTopK == 5

\* get_memory without a key: ORDER BY updated_at DESC LIMIT 15
RecentLimit == 15
\* searchSemantic(queryEmbedding, limit = 5)
DefaultLimit == 5

\* no second call in flight
NoCall == [pc |-> "idle"]

\* a null content (LLMResponse.content may be null)
Null == "<null>"

(* ------------------------------- inputs -------------------------------- *)

\* process(userInput, images): a text and an empty text, without images
UserTurns == { [userInput |-> "hi", images |-> <<>>],
               [userInput |-> "",   images |-> <<>>] }
AssistantContents == {Null, "answer"}
\* what a requested call can be: a registered tool with arguments that parse, the
\* same with arguments that do not parse, a name nobody registered
ToolCallKinds == { [name |-> "get_weather", arguments |-> "{}"],
                   [name |-> "get_weather", arguments |-> "{"],
                   [name |-> "ghost",       arguments |-> "{}"] }
MemoryHits == {<<>>, <<[key |-> "user_name", content |-> "Alex"]>>}
SystemPrompts == {Null, "You are Memora."}
\* config.maxIterations
IterationBudgets == 0..2
\* config.maxHistory; 0 stands for a maxHistory that is not set
WindowSettings == 0..2

VARIABLES
    history,            \* Agent.history
    tools,              \* ToolRegistry.tools, in insertion order
    maxIterations,      \* config.maxIterations
    maxHistory,         \* Agent.maxHistory
    systemPrompt,       \* config.systemPrompt (Null when not configured)
    pc,                 \* where process() is suspended: idle, embed, search, chat, exec
    iteration,          \* local iteration of process()
    finalContent,       \* local finalContent of process()
    optimizedHistory,   \* local optimizedHistory: the context handed to provider.chat
    toolDefs,           \* local toolDefs: the catalog handed to provider.chat
    toolCalls,          \* response.toolCalls of the assistant turn being served
    tcIdx,              \* position of the for-loop over response.toolCalls
    outcome,            \* how the last process() call ended: none, returned, threw
    returned,           \* the value the last process() call returned
    callNo,             \* number of process() calls started
    loopStart,          \* length of the history when the while loop was entered
    chatRequests,       \* provider.chat requests made by the current call
    dispatchedIds,      \* ids of the calls handed to ToolRegistry.execute by the current call
    invokedIds,         \* ids of the calls whose executor was invoked by the current call
    raisedIds,          \* ids of the calls whose executor raised in the current call
    nextId,             \* tool-call ids the provider has issued so far
    allToolTurns,       \* every chat request of the current call was answered with tool calls
    chatFailed,         \* a chat request of the current call failed
    memFailed,          \* proactive retrieval failed and its chat request is pending
    userInput,          \* parameter userInput of the current process() call
    images,             \* parameter images of the current process() call
    onMessage,          \* the messages the current call handed to the onMessage observer
    memory,             \* the rows of table memory: key, content, embedding
    callId,             \* which process() call the locals above belong to
    owner,              \* for every message of the history, the call that pushed it (0: none)
    other,              \* a second process() call in flight, suspended at its await
    db,                 \* DatabaseService.db: "null" or "open"
    initPromise,        \* DatabaseService.initPromise: 0 for null, else a promise
    promises,           \* the promises init() has created: pending, fulfilled, rejected
    setup,              \* where the async function of init() is suspended
    msgTableInfo,       \* local msgTableInfo: the columns PRAGMA reported for messages
    memTableInfo,       \* local memTableInfo: the columns PRAGMA reported for memory
    schema,             \* what the database file holds: the tables, the added columns
    callers,            \* the init() calls: not made, awaiting, returned, raised
    opens,              \* openDatabaseAsync calls made
    creates,            \* executions of the CREATE TABLE statements started
    failures,           \* statements of the setup that failed
    messages,           \* the rows of table messages: role, content, embedding
    search,             \* the last similarity search: its arguments and what it returned
    ops,                \* the runs of the memory executors so far, each with its result
    observers,          \* onMessage, onStatus, onChunk: absent, silent, or raising
    dropped,            \* the system messages of initialHistory the constructor left out
    registrations,      \* the register() calls made on the registry, in order
    executed,           \* the last tools.execute made outside process(): what it ran
    trunc               \* sqlite_sequence of messages, the truncateMessages call in flight
                        \* or made last, the getMessages result that followed it

config == <<tools, maxIterations, maxHistory, systemPrompt>>
locals == <<pc, iteration, finalContent, optimizedHistory, toolDefs, toolCalls, tcIdx>>
result == <<outcome, returned>>
ghosts == <<callNo, loopStart, chatRequests, dispatchedIds, invokedIds, raisedIds,
            nextId, allToolTurns, chatFailed, memFailed>>
args == <<userInput, images, callId>>
database == <<db, initPromise, promises, setup, msgTableInfo, memTableInfo, schema, callers,
              opens, creates, failures>>
retrieval == <<messages, search, ops>>
apart == <<observers, dropped, registrations, executed, trunc>>
environment == <<memory, other, database, retrieval, apart>>
agent == <<history, owner, config, locals, result, ghosts, args, onMessage, memory, other,
           retrieval, apart>>
vars == <<history, owner, config, locals, result, ghosts, args, onMessage, environment>>

(* ------------------------------ messages ------------------------------- *)

\* A Message; absent fields are <<>> (tool_calls, images) and 0 (tool_call_id).
Msg(role, content, calls, id, imgs) ==
    [role |-> role, content |-> content, tool_calls |-> calls,
     tool_call_id |-> id, images |-> imgs]

SystemMsg(prompt) == Msg("system", prompt, <<>>, 0, <<>>)

Last(s) == s[Len(s)]

\* response.content || ""
OrEmpty(c) == IF c = Null \/ c = "" THEN "" ELSE c

\* a truthy string (query && typeof query === 'string')
IsText(c) == c # Null /\ c # ""

(* ------------------------- history windowing --------------------------- *)

IsSystem(m) == m.role = "system"
NotSystem(m) == m.role # "system"

\* a slice that reaches one message further back
SliceLastOneMore(s, n) == IF Len(s) <= n + 1 THEN s ELSE SubSeq(s, Len(s) - n, Len(s))

\* others.slice(-n) for n >= 1: the last n elements
SliceLast(s, n) == IF Len(s) <= n THEN s ELSE SubSeq(s, Len(s) - n + 1, Len(s))

\* a window that keeps whatever slice(-n) left at its head
KeepLeadingTool(s) == s

RECURSIVE DropLeadingTool(_)
\* while (truncated.length > 0 && truncated[0].role === 'tool') truncated.shift()
DropLeadingTool(s) ==
    IF Len(s) > 0 /\ s[1].role = "tool" THEN DropLeadingTool(Tail(s)) ELSE s

\* the trimmed, order-preserving remainder of the non-system messages
Truncated(others, n) == DropLeadingTool(SliceLast(others, n))

\* a window that keeps the oldest n messages instead of the most recent
getOptimizedHistoryOldest(h, n) ==
    LET sys == SelectSeq(h, IsSystem)
        others == SelectSeq(h, NotSystem)
        truncated == DropLeadingTool(SubSeq(others, 1, IF Len(others) <= n THEN Len(others) ELSE n))
    IN  IF Len(sys) > 0 THEN <<sys[1]>> \o truncated ELSE truncated

\* Agent.getOptimizedHistory over a history h and a window n
getOptimizedHistory(h, n) ==
    LET sys == SelectSeq(h, IsSystem)
        others == SelectSeq(h, NotSystem)
        truncated == Truncated(others, n)
    IN  IF Len(sys) > 0 THEN <<sys[1]>> \o truncated ELSE truncated

(* ----------------------------- tool registry ---------------------------- *)

\* this.tools.get(name): position of the registered tool, 0 when there is none
Lookup(reg, name) ==
    IF \E i \in 1..Len(reg) : reg[i].name = name
    THEN CHOOSE i \in 1..Len(reg) : reg[i].name = name
    ELSE 0

Registered(reg, name) == Lookup(reg, name) # 0

\* a ToolDefinition: function.name and function.description
Definition(name, description) == [name |-> name, description |-> description]

\* a RegisteredTool under its name
RegisteredTool(definition, executor) ==
    [name |-> definition.name, definition |-> definition, execute |-> executor]

\* a map that keeps the first value set for a key
setKeepsFirst(reg, name, value) ==
    IF Registered(reg, name) THEN reg ELSE Append(reg, value)

\* a map that moves a key that is set again to the end
setMovesToEnd(reg, name, value) ==
    LET Others(t) == t.name # name IN Append(SelectSeq(reg, Others), value)

\* Map.set(name, value): the value of a key that is there is replaced where it is, a
\* new key goes to the end
set(reg, name, value) ==
    IF Registered(reg, name)
    THEN [reg EXCEPT ![Lookup(reg, name)] = value]
    ELSE Append(reg, value)

\* this.tools.get(name)?.execute: the executor ToolRegistry.execute invokes
executorOf(reg, name) ==
    IF Registered(reg, name) THEN reg[Lookup(reg, name)].execute ELSE Null

\* Array.from(this.tools.values()).map(t => t.definition)
getAllDefinitions(reg) == [i \in 1..Len(reg) |-> reg[i].definition]

\* no tools.execute was made from outside process()
NoExecution == [name |-> Null]

\* no message was ever inserted, no truncateMessages call was made
NoTruncation == [step |-> "none", seq |-> 0]

\* what an invoked executor does: it resolves with a ToolResult or it raises an Error
\* (ToolResult.error is an Error) that carries a message
ExecutorOutcomes ==
    { [raises |-> FALSE, forLLM |-> "sunny", images |-> <<>>, message |-> ""],
      [raises |-> TRUE,  forLLM |-> "",      images |-> <<>>, message |-> "boom"] }

NotFoundText(name) == "Error: Tool '" \o name \o "' not found."
ExecErrorText(name, message) == "Error executing tool '" \o name \o "': " \o message
MalformedText(name) == "Error: Malformed JSON in tool arguments for '" \o name \o "'."

\* a registry that raises for an unknown tool
ExecuteMissingRaises(name) ==
    [threw |-> TRUE, invoked |-> FALSE, forLLM |-> NotFoundText(name), images |-> <<>>,
     error |-> TRUE]

\* ToolRegistry.execute, the branch of an unregistered name
ExecuteMissing(name) ==
    [threw |-> FALSE, invoked |-> FALSE, forLLM |-> NotFoundText(name), images |-> <<>>,
     error |-> FALSE]

\* a registry that lets the executor's error through
ExecuteFoundRethrows(name, behaviour) ==
    IF behaviour.raises
    THEN [threw |-> TRUE, invoked |-> TRUE, forLLM |-> "", images |-> <<>>, error |-> TRUE]
    ELSE [threw |-> FALSE, invoked |-> TRUE, forLLM |-> behaviour.forLLM,
          images |-> behaviour.images, error |-> FALSE]

\* ToolRegistry.execute, the try/catch around the registered executor
ExecuteFound(name, behaviour) ==
    IF behaviour.raises
    THEN [threw |-> FALSE, invoked |-> TRUE, forLLM |-> ExecErrorText(name, behaviour.message),
          images |-> <<>>, error |-> TRUE]
    ELSE [threw |-> FALSE, invoked |-> TRUE, forLLM |-> behaviour.forLLM,
          images |-> behaviour.images, error |-> FALSE]

\* ToolRegistry.execute(name, args); threw tells whether the call itself raised
execute(reg, name, behaviour) ==
    IF ~Registered(reg, name) THEN ExecuteMissing(name) ELSE ExecuteFound(name, behaviour)

\* the argument texts a requested call can carry besides "{}" and the broken "{"
SaveArgs1 == "{\"key\":\"k1\",\"content\":\"c1\"}"
SaveArgs2 == "{\"key\":\"k1\",\"content\":\"c2\"}"
KeyArgs == "{\"key\":\"k1\"}"

\* JSON.parse on the texts that parse; a missing property reads as undefined (Null)
JSONParse ==
    ("{}" :> [key |-> Null, content |-> Null])
    @@ (SaveArgs1 :> [key |-> "k1", content |-> "c1"])
    @@ (SaveArgs2 :> [key |-> "k1", content |-> "c2"])
    @@ (KeyArgs :> [key |-> "k1", content |-> Null])

\* JSON.parse(toolCall.function.arguments) succeeds
JSONParses(payload) == payload \in DOMAIN JSONParse

(* ----------------------------- memory tools ----------------------------- *)

\* a plain INSERT: the row is added whatever the table holds
InsertKeepsOld(rows, key, content, embedding) ==
    rows \o <<[key |-> key, content |-> content, embedding |-> embedding]>>

\* INSERT OR REPLACE INTO memory (key, content, embedding, updated_at): the row with
\* this key, if any, is removed and the new row is added
InsertOrReplace(rows, key, content, embedding) ==
    LET Others(r) == r.key # key IN
    SelectSeq(rows, Others) \o <<[key |-> key, content |-> content, embedding |-> embedding]>>

\* a DELETE without its WHERE clause
DeleteEveryRow(rows, key) == <<>>

\* DELETE FROM memory WHERE key = ?
DeleteWhereKey(rows, key) ==
    LET Others(r) == r.key # key IN SelectSeq(rows, Others)

\* SELECT content FROM memory WHERE key = ? (getFirstAsync): the rows with this key
WhereKey(rows, key) ==
    LET Same(r) == r.key = key IN SelectSeq(rows, Same)

RECURSIVE Reverse(_)
Reverse(q) == IF Len(q) = 0 THEN <<>> ELSE Append(Reverse(Tail(q)), Head(q))

RECURSIVE JoinEntries(_)
\* results.map(r => `[${r.key}] ${r.content}`).join('\n')
JoinEntries(rows) ==
    IF Len(rows) = 0 THEN ""
    ELSE IF Len(rows) = 1 THEN "[" \o rows[1].key \o "] " \o rows[1].content
    ELSE "[" \o rows[1].key \o "] " \o rows[1].content \o "\n" \o JoinEntries(Tail(rows))

\* SELECT key, content FROM memory ORDER BY updated_at DESC LIMIT 15; rows are kept in
\* the order of their writes
RecentRows(rows) ==
    LET recent == Reverse(rows) IN
    IF Len(recent) <= RecentLimit THEN recent ELSE SubSeq(recent, 1, RecentLimit)

\* what a statement on the database does: it runs, or it raises an Error
StatementOutcomes == { [raises |-> FALSE, message |-> ""],
                       [raises |-> TRUE,  message |-> "disk I/O error"] }

\* the executor createMemoryExecutor(dbService, provider) returns, on the arguments a;
\* embedding is the JSON of the provider's vector, Null when there is no provider
saveMemory(rows, a, embedding, st) ==
    IF st.raises
    THEN [forLLM |-> "Error saving memory: " \o st.message, rows |-> rows, error |-> TRUE]
    ELSE [forLLM |-> "Memory saved successfully: [" \o a.key \o "] " \o a.content,
          rows |-> InsertOrReplace(rows, a.key, a.content, embedding), error |-> FALSE]

\* the executor createGetMemoryExecutor(dbService) returns
getMemory(rows, a, st) ==
    IF st.raises
    THEN [forLLM |-> "Error retrieving memory: " \o st.message, rows |-> rows,
          error |-> TRUE]
    ELSE IF IsText(a.key)
    THEN LET found == WhereKey(rows, a.key) IN
         IF Len(found) = 0
         THEN [forLLM |-> "No memory found for key: " \o a.key, rows |-> rows,
               error |-> FALSE]
         ELSE [forLLM |-> "Memory found for " \o a.key \o ": " \o found[1].content,
               rows |-> rows, error |-> FALSE]
    ELSE IF Len(RecentRows(rows)) = 0
    THEN [forLLM |-> "Memory registry is empty.", rows |-> rows, error |-> FALSE]
    ELSE [forLLM |-> "Relevant memories found:\n" \o JoinEntries(RecentRows(rows)),
          rows |-> rows, error |-> FALSE]

\* the executor createDeleteMemoryExecutor(dbService) returns
deleteMemory(rows, a, st) ==
    IF st.raises
    THEN [forLLM |-> "Error deleting memory: " \o st.message, rows |-> rows, error |-> TRUE]
    ELSE [forLLM |-> "Successfully deleted memory with key: " \o a.key,
          rows |-> DeleteWhereKey(rows, a.key), error |-> FALSE]

\* the memory executor registered under name, as buildAgent registers it (without an
\* embedding provider)
memoryExecutor(name, rows, a, st) ==
    CASE name = "save_memory"   -> saveMemory(rows, a, Null, st)
      [] name = "get_memory"    -> getMemory(rows, a, st)
      [] name = "delete_memory" -> deleteMemory(rows, a, st)

\* the record of one run of a memory executor: what it was called with, the embedding
\* it wrote, what it returned and the rows of table memory it left
Ran(name, a, embedding, run) ==
    [name |-> name, key |-> a.key, content |-> a.content, embedding |-> embedding,
     error |-> run.error, forLLM |-> run.forLLM, rows |-> run.rows]

\* the memory tools buildAgent registers
MemoryTools ==
    <<[name |-> "save_memory", definition |-> Definition("save_memory", "save"),
       execute |-> "createMemoryExecutor"],
      [name |-> "get_memory", definition |-> Definition("get_memory", "retrieve"),
       execute |-> "createGetMemoryExecutor"],
      [name |-> "delete_memory", definition |-> Definition("delete_memory", "delete"),
       execute |-> "createDeleteMemoryExecutor"]>>

(* --------------------------- similarity search -------------------------- *)

\* the embedding vectors met here: two directions and their sum, an opposite, a zero
\* vector, and a vector of another length than the rest
Vectors == { <<1, 0>>, <<0, 1>>, <<1, 1>>, <<-1, 0>>, <<0, 0>>, <<1>> }

\* String(n) for the components met here
NumberText(n) == IF n < 0 THEN "-" \o ToString(-n) ELSE ToString(n)

RECURSIVE JoinNumbers(_)
JoinNumbers(v) ==
    IF Len(v) = 0 THEN ""
    ELSE IF Len(v) = 1 THEN NumberText(v[1])
    ELSE NumberText(v[1]) \o "," \o JoinNumbers(Tail(v))

\* JSON.stringify(vector): "[1,0]"
JSONStringify(vector) == "[" \o JoinNumbers(vector) \o "]"

\* JSON.parse(row.embedding) on the text of a stored vector
JSONParseVector(text) == CHOOSE v \in Vectors : JSONStringify(v) = text

\* the number NaN; the other numbers a similarity can be are dot / sqrt(normA * normB),
\* kept as the three sums so that they compare exactly (the doubles of the program
\* agree with them up to rounding)
NaN == [nan |-> TRUE, dot |-> 0, normA |-> 0, normB |-> 0]

RECURSIVE SumProducts(_, _, _)
\* the sum over i < n of a[i] * b[i]
SumProducts(a, b, n) == IF n = 0 THEN 0 ELSE SumProducts(a, b, n - 1) + a[n] * b[n]

\* cosineSimilarity(vecA, vecB): the loop runs over vecA.length; a vecB that is
\* shorter yields undefined components, whose products are NaN; a zero norm makes
\* the quotient 0 / 0, which is NaN
cosineSimilarity(vecA, vecB) ==
    IF Len(vecA) > Len(vecB) THEN NaN
    ELSE LET n == Len(vecA)
             normA == SumProducts(vecA, vecA, n)
             normB == SumProducts(vecB, vecB, n) IN
         IF normA * normB = 0 THEN NaN
         ELSE [nan |-> FALSE, dot |-> SumProducts(vecA, vecB, n), normA |-> normA,
               normB |-> normB]

Abs(n) == IF n < 0 THEN -n ELSE n

\* s >= t for two similarities that are numbers
AtLeast(s, t) ==
    s.dot * Abs(s.dot) * t.normA * t.normB >= t.dot * Abs(t.dot) * s.normA * s.normB

\* s > t for two similarities that are numbers
Above(s, t) == ~AtLeast(t, s)

\* -1 <= s <= 1 for a similarity that is a number
InUnitRange(s) == s.dot * s.dot <= s.normA * s.normB

\* s = 1
IsOne(s) == ~s.nan /\ s.dot > 0 /\ s.dot * s.dot = s.normA * s.normB

\* no search made yet
NoSearch == [kind |-> "none"]

\* { ...row, similarity }
Scored(row, queryEmbedding) ==
    [row |-> row,
     similarity |-> cosineSimilarity(queryEmbedding, JSONParseVector(row.embedding))]

\* x put into a list sorted by descending similarity, behind the elements that are
\* not below it
InsertDescending(sorted, x) ==
    LET before == { i \in 1..Len(sorted) : AtLeast(sorted[i].similarity, x.similarity) }
        k == IF before = {} THEN 0 ELSE CHOOSE i \in before : \A j \in before : j <= i
    IN SubSeq(sorted, 1, k) \o <<x>> \o SubSeq(sorted, k + 1, Len(sorted))

RECURSIVE StableDescending(_)
StableDescending(results) ==
    IF Len(results) = 0 THEN <<>>
    ELSE InsertDescending(StableDescending(SubSeq(results, 1, Len(results) - 1)),
                          Last(results))

\* results.sort((a, b) => b.similarity - a.similarity): a stable sort by descending
\* similarity; with a NaN among the similarities the comparator is not consistent
\* and the order is whatever the engine's sort leaves
sort(results) ==
    IF \E i \in 1..Len(results) : results[i].similarity.nan
    THEN { [i \in 1..Len(results) |-> results[p[i]]] : p \in Permutations(1..Len(results)) }
    ELSE { StableDescending(results) }

\* .slice(0, limit) for a limit >= 0
slice(results, limit) ==
    SubSeq(results, 1, IF limit < Len(results) THEN limit ELSE Len(results))

\* WHERE embedding IS NOT NULL
WithEmbedding(rows) ==
    LET Embedded(r) == r.embedding # Null IN SelectSeq(rows, Embedded)

\* a candidate set that takes the messages of every role
MessageCandidatesAnyRole(rows) ==
    LET Embedded(r) == r.embedding # Null IN SelectSeq(rows, Embedded)

\* WHERE embedding IS NOT NULL AND role IN ("user", "assistant")
MessageCandidates(rows) ==
    LET Wanted(r) == r.embedding # Null /\ r.role \in {"user", "assistant"} IN
    SelectSeq(rows, Wanted)

\* the lists the ranking of the candidate rows can come to
Ranked(candidates, queryEmbedding, limit) ==
    LET results == [i \in 1..Len(candidates) |-> Scored(candidates[i], queryEmbedding)]
    IN { slice(sorted, limit) : sorted \in sort(results) }

\* searchSemantic(queryEmbedding, limit) over the rows of table messages
searchSemantic(rows, queryEmbedding, limit) ==
    Ranked(MessageCandidates(rows), queryEmbedding, limit)

\* searchSemanticMemory(queryEmbedding, limit) over the rows of table memory
searchSemanticMemory(rows, queryEmbedding, limit) ==
    Ranked(WithEmbedding(rows), queryEmbedding, limit)

(* ------------------------------ constructor ---------------------------- *)

\* this.maxHistory = config.maxHistory || 20 (cfg = 0 stands for an unset or zero value)
ConfiguredWindow(cfg) == IF cfg = 0 THEN DefaultMaxHistory ELSE cfg

\* a constructor that puts the prompt in front of whatever it is given
InitialHistoryPrepends(prompt, initial) ==
    IF IsText(prompt) THEN <<SystemMsg(prompt)>> \o initial ELSE initial

\* the history the constructor builds from config.systemPrompt and initialHistory
InitialHistory(prompt, initial) ==
    IF Len(initial) > 0
    THEN IF \E i \in 1..Len(initial) : IsSystem(initial[i])
         THEN IF IsText(prompt)
              THEN <<SystemMsg(prompt)>> \o SelectSeq(initial, NotSystem)
              ELSE SelectSeq(initial, NotSystem)
         ELSE IF IsText(prompt) THEN <<SystemMsg(prompt)>> \o initial ELSE initial
    ELSE IF IsText(prompt) THEN <<SystemMsg(prompt)>> ELSE <<>>

\* the registry the application builds before it constructs the agent
InitialTools ==
    <<[name |-> "get_weather", definition |-> Definition("get_weather", "weather"),
       execute |-> "executeGetWeather"]>>

(* --------------------------- process(): pieces -------------------------- *)

\* lastMsg && lastMsg.role === 'user' && lastMsg.content === userInput
IsContinuation(h, text) ==
    Len(h) > 0 /\ Last(h).role = "user" /\ Last(h).content = text

\* a guard that is never taken: every call pushes a user message
AcceptInputAlwaysAppends(h, text, imgs) == Append(h, Msg("user", text, <<>>, 0, imgs))

\* the dedup guard and the push of the user message
AcceptInput(h, text, imgs) ==
    IF Len(h) > 0 /\ Last(h).role = "user" /\ Last(h).content = text
    THEN IF Len(imgs) > 0 /\ Len(Last(h).images) = 0
         THEN [h EXCEPT ![Len(h)].images = imgs]
         ELSE h
    ELSE Append(h, Msg("user", text, <<>>, 0, imgs))

\* the owners of the messages of h, those pushed since own was written being id's
Owners(own, h, id) == own \o [i \in 1..(Len(h) - Len(own)) |-> id]

\* what an agent's observers do: none is set; all three are set and return; or the
\* named one raises and the other two return
Observers == {"absent", "silent", "onMessage", "onStatus", "onChunk"}

\* this.onMessage?.(message), on the messages handed over so far
Notify(log, m) == IF observers = "absent" THEN log ELSE Append(log, m)

RECURSIVE JoinLines(_)
\* memories.map(m => `- ${m.key}: ${m.content}`).join('\n')
JoinLines(memories) ==
    IF Len(memories) = 0 THEN ""
    ELSE IF Len(memories) = 1 THEN "- " \o memories[1].key \o ": " \o memories[1].content
    ELSE "- " \o memories[1].key \o ": " \o memories[1].content \o "\n"
         \o JoinLines(Tail(memories))

memorySnippet(memories) == "\n\n[RELEVANT MEMORIES]:\n" \o JoinLines(memories)

\* an injection into whatever message the context starts with
InjectIntoFirst(opt, memories) ==
    IF Len(memories) > 0
    THEN [opt EXCEPT ![1].content = OrEmpty(@) \o memorySnippet(memories)]
    ELSE opt

\* the injection of the found memories into the windowed copy of the system message
Inject(opt, memories) ==
    IF Len(memories) > 0 /\ opt[1].role = "system"
    THEN [opt EXCEPT ![1].content = OrEmpty(@) \o memorySnippet(memories)]
    ELSE opt

\* an errorResult that is not tied to its call
errorResultUntied(call) == Msg("tool", MalformedText(call.name), <<>>, 0, <<>>)

\* the tool message synthesized for a call whose arguments do not parse
errorResult(call) == Msg("tool", MalformedText(call.name), <<>>, call.id, <<>>)

\* a tool message that leaves the images of the result behind
toolMessageWithoutImages(call, res) == Msg("tool", res.forLLM, <<>>, call.id, <<>>)

\* the tool message built from a ToolResult
toolMessage(call, res) == Msg("tool", res.forLLM, <<>>, call.id, res.images)

\* the assistant message built from an LLMResponse
assistantMessage(content, calls) == Msg("assistant", content, calls, 0, <<>>)

\* a for-loop that leaves at the first call whose arguments do not parse
AbortOnMalformed(h, calls, idx) ==
    IF idx <= Len(calls) /\ ~JSONParses(calls[idx].arguments)
    THEN [h |-> Append(h, errorResult(calls[idx])), idx |-> Len(calls) + 1]
    ELSE [h |-> h, idx |-> idx]

RECURSIVE SkipMalformed(_, _, _)
\* the for-loop from position idx up to its next await: every call whose arguments do
\* not parse gets its errorResult and the loop continues with the next call
SkipMalformed(h, calls, idx) ==
    IF idx <= Len(calls) /\ ~JSONParses(calls[idx].arguments)
    THEN SkipMalformed(Append(h, errorResult(calls[idx])), calls, idx + 1)
    ELSE [h |-> h, idx |-> idx]

(* ------------------------ process(): control flow ----------------------- *)

\* process() waits at an await with these locals
Await(p, it, opt, calls, idx, n) ==
    /\ pc' = p
    /\ iteration' = it
    /\ finalContent' = ""
    /\ optimizedHistory' = opt
    /\ toolCalls' = calls
    /\ tcIdx' = idx
    /\ chatRequests' = n
    /\ outcome' = "none"
    /\ returned' = ""

\* process() is suspended at an await within the iteration it is in
Suspend(p, it, opt, calls, idx, n) ==
    /\ Await(p, it, opt, calls, idx, n)
    /\ toolDefs' = toolDefs

\* the head of an iteration: const toolDefs = this.tools.getAllDefinitions(), then
\* process() is suspended at the first await of the iteration
Request(p, it, opt, calls, idx, n) ==
    /\ Await(p, it, opt, calls, idx, n)
    /\ toolDefs' = getAllDefinitions(tools)

\* process() ends: return finalContent, or an error leaves it
Finish(how, it, fin, n) ==
    /\ pc' = "idle"
    /\ iteration' = it
    /\ finalContent' = fin
    /\ optimizedHistory' = <<>>
    /\ toolDefs' = <<>>
    /\ toolCalls' = <<>>
    /\ tcIdx' = 0
    /\ chatRequests' = n
    /\ outcome' = how
    /\ returned' = IF how = "returned" THEN fin ELSE ""

RECURSIVE LastText(_)
\* the last textual content among the assistant messages of s, "" when there is none
LastText(s) ==
    IF Len(s) = 0 THEN ""
    ELSE IF Last(s).role = "assistant" /\ IsText(Last(s).content) THEN Last(s).content
    ELSE LastText(SubSeq(s, 1, Len(s) - 1))

\* a loop head that hands back the last assistant text when the budget is used up
WhileHeadReturnsLastText(h, it, fin, n) ==
    IF it < maxIterations
    THEN LET opt == getOptimizedHistory(h, maxHistory) IN
         IF it + 1 = 1 /\ Len(opt) > 0 /\ IsText(Last(opt).content)
         THEN Request("embed", it + 1, opt, <<>>, 0, n)
         ELSE Request("chat", it + 1, opt, <<>>, 0, n + 1)
    ELSE LET start == IF it = 0 THEN Len(h) ELSE loopStart IN
         Finish("returned", it, LastText(SubSeq(h, start + 1, Len(h))), n)

\* a loop head that attempts the retrieval on every iteration
WhileHeadRetrievesAlways(h, it, fin, n) ==
    IF it < maxIterations
    THEN LET opt == getOptimizedHistory(h, maxHistory) IN
         IF Len(opt) > 0 /\ IsText(Last(opt).content)
         THEN Request("embed", it + 1, opt, <<>>, 0, n)
         ELSE Request("chat", it + 1, opt, <<>>, 0, n + 1)
    ELSE Finish("returned", it, fin, n)

\* a loop head that builds the context once and sends it again on later iterations
WhileHeadKeepsContext(h, it, fin, n) ==
    IF it < maxIterations
    THEN LET opt == IF it = 0 THEN getOptimizedHistory(h, maxHistory)
                    ELSE optimizedHistory IN
         IF it + 1 = 1 /\ Len(opt) > 0 /\ IsText(Last(opt).content)
         THEN Request("embed", it + 1, opt, <<>>, 0, n)
         ELSE Request("chat", it + 1, opt, <<>>, 0, n + 1)
    ELSE Finish("returned", it, fin, n)

\* a loop head that ignores the iteration budget
WhileHeadNoBudget(h, it, fin, n) ==
    LET opt == getOptimizedHistory(h, maxHistory) IN
    IF it + 1 = 1 /\ Len(opt) > 0 /\ IsText(Last(opt).content)
    THEN Request("embed", it + 1, opt, <<>>, 0, n)
    ELSE Request("chat", it + 1, opt, <<>>, 0, n + 1)

\* while (iteration < maxIterations) over the history h, up to the next await:
\* the embedding request on iteration 1, the chat request otherwise
WhileHead(h, it, fin, n) ==
    IF it < maxIterations
    THEN LET opt == getOptimizedHistory(h, maxHistory) IN
         IF it + 1 = 1 /\ Len(opt) > 0 /\ IsText(Last(opt).content)
         THEN Request("embed", it + 1, opt, <<>>, 0, n)
         ELSE Request("chat", it + 1, opt, <<>>, 0, n + 1)
    ELSE Finish("returned", it, fin, n)

\* a for-loop after which the history is cut down to the window
ForLoopTrimsHistory(h, calls, idx, it, n) ==
    LET r == SkipMalformed(h, calls, idx) IN
    /\ history' = getOptimizedHistory(r.h, maxHistory)
    /\ IF r.idx > Len(calls)
       THEN /\ WhileHead(r.h, it, finalContent, n)
            /\ dispatchedIds' = dispatchedIds
       ELSE /\ Suspend("exec", it, <<>>, calls, r.idx, n)
            /\ dispatchedIds' = dispatchedIds \cup {calls[r.idx].id}

\* a for-loop that hands every remaining call to the registry at once
ForLoopDispatchesAll(h, calls, idx, it, n) ==
    LET r == SkipMalformed(h, calls, idx) IN
    /\ history' = r.h
    /\ IF r.idx > Len(calls)
       THEN /\ WhileHead(r.h, it, finalContent, n)
            /\ dispatchedIds' = dispatchedIds
       ELSE /\ Suspend("exec", it, <<>>, calls, r.idx, n)
            /\ dispatchedIds' = dispatchedIds \cup
                  { calls[i].id : i \in { j \in r.idx..Len(calls) :
                                             JSONParses(calls[j].arguments) } }

\* for (const toolCall of response.toolCalls) from position idx, up to the next await
ForLoop(h, calls, idx, it, n) ==
    LET r == SkipMalformed(h, calls, idx) IN
    /\ history' = r.h
    /\ IF r.idx > Len(calls)
       THEN /\ WhileHead(r.h, it, finalContent, n)
            /\ dispatchedIds' = dispatchedIds
       ELSE /\ Suspend("exec", it, <<>>, calls, r.idx, n)
            /\ dispatchedIds' = dispatchedIds \cup {calls[r.idx].id}

(* ------------------------------- actions -------------------------------- *)

IsAssistant(m) == m.role = "assistant"

\* assistant turns in a history
AssistantTurns(h) == Len(SelectSeq(h, IsAssistant))

\* an observer raises before the first await of process(): onMessage on the user
\* message that was pushed, onStatus on "Thinking..." of iteration 1
RaisesOnEntry(text) ==
    \/ observers = "onMessage" /\ ~IsContinuation(history, text)
    \/ observers = "onStatus" /\ 0 < maxIterations

\* an observer raises on an assistant turn: onMessage on the message that was pushed,
\* onChunk on its content when that is truthy
RaisesOnTurn(content) ==
    \/ observers = "onMessage"
    \/ observers = "onChunk" /\ IsText(content)

\* process(userInput, images) from its entry to its first await (or its return when
\* maxIterations is 0)
process(text, imgs) ==
    /\ pc = "idle"
    /\ callNo < MaxProcessCalls
    /\ AssistantTurns(history) < MaxAssistantTurns
    /\ ~RaisesOnEntry(text)
    /\ LET h == AcceptInput(history, text, imgs) IN
       /\ history' = h
       /\ loopStart' = Len(h)
       /\ WhileHead(h, 0, "", 0)
    /\ userInput' = text
    /\ images' = imgs
    /\ callId' = callNo + 1
    /\ owner' = Owners(owner, history', callId')
    /\ onMessage' = IF IsContinuation(history, text) THEN <<>>
                    ELSE Notify(<<>>, Msg("user", text, <<>>, 0, imgs))
    /\ callNo' = callNo + 1
    /\ dispatchedIds' = {}
    /\ invokedIds' = {}
    /\ raisedIds' = {}
    /\ allToolTurns' = TRUE
    /\ chatFailed' = FALSE
    /\ memFailed' = FALSE
    /\ UNCHANGED <<config, nextId, environment>>

\* a retrieval failure that leaves process() as an error
RetrievalErrorPropagates ==
    /\ Finish("threw", iteration, finalContent, chatRequests)
    /\ memFailed' = TRUE
    /\ UNCHANGED <<history, owner, config, callNo, loopStart, dispatchedIds, invokedIds,
                   raisedIds, nextId, allToolTurns, chatFailed, args, onMessage, environment>>

\* catch (e) { console.error(...) } around the retrieval, then the chat request with
\* the windowed history as it is
RetrievalErrorCaught ==
    /\ Suspend("chat", iteration, optimizedHistory, <<>>, 0, chatRequests + 1)
    /\ memFailed' = TRUE
    /\ UNCHANGED <<history, owner, config, callNo, loopStart, dispatchedIds, invokedIds,
                   raisedIds, nextId, allToolTurns, chatFailed, args, onMessage, environment>>

\* provider.createEmbedding(query) rejects
EmbeddingFails ==
    /\ pc = "embed"
    /\ RetrievalErrorCaught

\* provider.createEmbedding(query) resolves: the similarity search is requested
EmbeddingResolves ==
    /\ pc = "embed"
    /\ Suspend("search", iteration, optimizedHistory, <<>>, 0, chatRequests)
    /\ UNCHANGED <<history, owner, config, ghosts, args, onMessage, environment>>

\* dbService.searchSemanticMemory(embedding, 5) rejects
SearchFails ==
    /\ pc = "search"
    /\ RetrievalErrorCaught

\* dbService.searchSemanticMemory(embedding, 5) resolves with the memories found
SearchResolves(memories) ==
    /\ pc = "search"
    /\ Len(memories) <= MemoryTopK
    /\ Suspend("chat", iteration, Inject(optimizedHistory, memories), <<>>, 0,
               chatRequests + 1)
    /\ UNCHANGED <<history, owner, config, callNo, loopStart, dispatchedIds, invokedIds,
                   raisedIds, nextId, allToolTurns, chatFailed, memFailed, args,
                   onMessage, environment>>

\* a chat failure after which the loop asks again
ChatErrorRetried ==
    /\ Suspend("chat", iteration, optimizedHistory, <<>>, 0, chatRequests + 1)
    /\ chatFailed' = TRUE
    /\ allToolTurns' = FALSE
    /\ memFailed' = FALSE
    /\ UNCHANGED <<history, owner, config, callNo, loopStart, dispatchedIds, invokedIds,
                   raisedIds, nextId, args, onMessage, environment>>

\* the rejection of provider.chat is not caught: it leaves process()
ChatErrorPropagates ==
    /\ Finish("threw", iteration, finalContent, chatRequests)
    /\ chatFailed' = TRUE
    /\ allToolTurns' = FALSE
    /\ memFailed' = FALSE
    /\ UNCHANGED <<history, owner, config, callNo, loopStart, dispatchedIds, invokedIds,
                   raisedIds, nextId, args, onMessage, environment>>

\* provider.chat(optimizedHistory, toolDefs) rejects
ChatFails ==
    /\ pc = "chat"
    /\ ChatErrorPropagates

\* a final answer that is returned without being kept in the history
FinalAnswerNotKept(h, content) ==
    /\ history' = history
    /\ Finish("returned", iteration, OrEmpty(content), chatRequests)

\* an assistant turn without tool calls after which the loop goes on
FinalAnswerContinues(h, content) ==
    /\ history' = h
    /\ WhileHead(h, iteration, OrEmpty(content), chatRequests)

\* if (!response.toolCalls || response.toolCalls.length === 0): the final answer
FinalAnswer(h, content) ==
    /\ history' = h
    /\ Finish("returned", iteration, OrEmpty(content), chatRequests)

\* provider.chat resolves with an assistant turn: it is pushed, and either it is the
\* final answer or its tool calls are served up to the first tools.execute
ChatResolves(content, calls) ==
    /\ pc = "chat"
    /\ ~RaisesOnTurn(content)
    /\ nextId + Len(calls) <= MaxToolCallIds
    /\ (Len(calls) > 0 /\ iteration < maxIterations)
          => AssistantTurns(history) + 1 < MaxAssistantTurns
    /\ LET h == Append(history, assistantMessage(content, calls)) IN
       IF Len(calls) = 0
       THEN /\ FinalAnswer(h, content)
            /\ allToolTurns' = FALSE
            /\ dispatchedIds' = dispatchedIds
       ELSE /\ ForLoop(h, calls, 1, iteration, chatRequests)
            /\ allToolTurns' = allToolTurns
    /\ nextId' = nextId + Len(calls)
    /\ memFailed' = FALSE
    /\ onMessage' = Notify(onMessage, assistantMessage(content, calls))
    /\ owner' = Owners(owner, history', callId)
    /\ UNCHANGED <<config, callNo, loopStart, invokedIds, raisedIds, chatFailed, args,
                   environment>>

\* process(userInput, images) with an observer that raises before the first await:
\* the user message is in the history, the error of the observer leaves process()
ObserverRaisesOnEntry(text, imgs) ==
    /\ pc = "idle"
    /\ callNo < MaxProcessCalls
    /\ AssistantTurns(history) < MaxAssistantTurns
    /\ RaisesOnEntry(text)
    /\ history' = AcceptInput(history, text, imgs)
    /\ loopStart' = Len(history')
    /\ Finish("threw", IF observers = "onStatus" THEN 1 ELSE 0, "", 0)
    /\ userInput' = text
    /\ images' = imgs
    /\ callId' = callNo + 1
    /\ owner' = Owners(owner, history', callId')
    /\ onMessage' = IF IsContinuation(history, text) THEN <<>>
                    ELSE Notify(<<>>, Msg("user", text, <<>>, 0, imgs))
    /\ callNo' = callNo + 1
    /\ dispatchedIds' = {}
    /\ invokedIds' = {}
    /\ raisedIds' = {}
    /\ allToolTurns' = TRUE
    /\ chatFailed' = FALSE
    /\ memFailed' = FALSE
    /\ UNCHANGED <<config, nextId, environment>>

\* provider.chat resolves with an assistant turn and an observer raises on it: the
\* turn is in the history, none of its tool calls is served, the error of the
\* observer leaves process()
ObserverRaisesOnTurn(content, calls) ==
    /\ pc = "chat"
    /\ RaisesOnTurn(content)
    /\ nextId + Len(calls) <= MaxToolCallIds
    /\ history' = Append(history, assistantMessage(content, calls))
    /\ Finish("threw", iteration, finalContent, chatRequests)
    /\ nextId' = nextId + Len(calls)
    /\ memFailed' = FALSE
    /\ onMessage' = Notify(onMessage, assistantMessage(content, calls))
    /\ owner' = Owners(owner, history', callId)
    /\ UNCHANGED <<config, callNo, loopStart, dispatchedIds, invokedIds, raisedIds,
                   allToolTurns, chatFailed, args, environment>>

\* the tool calls the provider may return: k calls with fresh ids
ToolCallLists ==
    UNION { { [i \in 1..k |-> [id |-> nextId + i, name |-> kinds[i].name,
                                arguments |-> kinds[i].arguments]] :
                kinds \in [1..k -> ToolCallKinds] } :
            k \in 0..(MaxToolCallIds - nextId) }

\* this.tools.execute(name, args) settles: its result becomes a tool message and the
\* for-loop goes on; were it to reject, the error would leave process()
ExecuteSettles(behaviour) ==
    /\ pc = "exec"
    /\ LET call == toolCalls[tcIdx]
           res == execute(tools, call.name, behaviour)
       IN  /\ IF res.threw
              THEN /\ Finish("threw", iteration, finalContent, chatRequests)
                   /\ UNCHANGED <<history, dispatchedIds, onMessage>>
              ELSE /\ ForLoop(Append(history, toolMessage(call, res)), toolCalls,
                              tcIdx + 1, iteration, chatRequests)
                   /\ onMessage' = Notify(onMessage, toolMessage(call, res))
           /\ invokedIds' = IF res.invoked THEN invokedIds \cup {call.id} ELSE invokedIds
           /\ raisedIds' = IF res.invoked /\ res.error
                           THEN raisedIds \cup {call.id} ELSE raisedIds
    /\ owner' = Owners(owner, history', callId)
    /\ UNCHANGED <<config, callNo, loopStart, nextId, allToolTurns, chatFailed, memFailed,
                   args, environment>>

\* this.tools.execute(name, args) settles for a memory tool: the executor has run its
\* statement on table memory, its result becomes a tool message, the for-loop goes on
MemoryToolSettles(st) ==
    /\ pc = "exec"
    /\ toolCalls[tcIdx].name \in {"save_memory", "get_memory", "delete_memory"}
    /\ LET call == toolCalls[tcIdx]
           run == memoryExecutor(call.name, memory, JSONParse[call.arguments], st)
           res == execute(tools, call.name,
                          [raises |-> FALSE, forLLM |-> run.forLLM, images |-> <<>>,
                           message |-> ""])
       IN  /\ IF res.threw
              THEN /\ Finish("threw", iteration, finalContent, chatRequests)
                   /\ UNCHANGED <<history, dispatchedIds, onMessage>>
              ELSE /\ ForLoop(Append(history, toolMessage(call, res)), toolCalls,
                              tcIdx + 1, iteration, chatRequests)
                   /\ onMessage' = Notify(onMessage, toolMessage(call, res))
           /\ memory' = IF res.invoked THEN run.rows ELSE memory
           /\ ops' = IF res.invoked
                     THEN Append(ops, Ran(call.name, JSONParse[call.arguments], Null, run))
                     ELSE ops
           /\ invokedIds' = IF res.invoked THEN invokedIds \cup {call.id} ELSE invokedIds
    /\ owner' = Owners(owner, history', callId)
    /\ UNCHANGED <<config, callNo, loopStart, nextId, allToolTurns, chatFailed, memFailed,
                   raisedIds, args, other, database, messages, search, apart>>

\* clearHistory(): the history is emptied and the configured prompt is pushed
clearHistory ==
    /\ history' = IF IsText(systemPrompt) THEN <<SystemMsg(systemPrompt)>> ELSE <<>>
    /\ owner' = [i \in 1..Len(history') |-> 0]
    /\ UNCHANGED <<config, locals, result, ghosts, args, onMessage, environment>>

\* register(definition, execute), at any time
register(definition, executor) ==
    /\ Len(registrations) < MaxRegistrations
    /\ tools' = set(tools, definition.name, RegisteredTool(definition, executor))
    /\ registrations' = Append(registrations, RegisteredTool(definition, executor))
    /\ UNCHANGED <<history, owner, maxIterations, maxHistory, systemPrompt, locals, result,
                   ghosts, args, onMessage, memory, other, database, retrieval, observers,
                   dropped, executed, trunc>>

\* tools.execute(name, args) is called from outside process() and settles
ExecuteRuns(name, behaviour) ==
    /\ executed' = [name |-> name, ran |-> executorOf(tools, name),
                    after |-> Len(registrations),
                    result |-> execute(tools, name, behaviour)]
    /\ UNCHANGED <<history, owner, config, locals, result, ghosts, args, onMessage, memory,
                   other, database, retrieval, observers, dropped, registrations, trunc>>

(* ----------------------- a second call while one is in flight ----------- *)

\* the locals of the call the actions above work on, as they are kept while the call
\* waits at its await
Parked ==
    [pc |-> pc, iteration |-> iteration, finalContent |-> finalContent,
     optimizedHistory |-> optimizedHistory, toolDefs |-> toolDefs, toolCalls |-> toolCalls,
     tcIdx |-> tcIdx,
     userInput |-> userInput, images |-> images, callId |-> callId,
     onMessage |-> onMessage, loopStart |-> loopStart, chatRequests |-> chatRequests,
     dispatchedIds |-> dispatchedIds, invokedIds |-> invokedIds, raisedIds |-> raisedIds,
     allToolTurns |-> allToolTurns, chatFailed |-> chatFailed, memFailed |-> memFailed]

\* process(userInput, images) is called while a call is suspended at an await: nothing
\* in process() looks at whether a call is in flight, so the new call runs from its
\* entry to its first await on the same history
processInFlight(text, imgs) ==
    /\ pc # "idle"
    /\ other = NoCall
    /\ callNo < MaxProcessCalls
    /\ AssistantTurns(history) < MaxAssistantTurns
    /\ other' = Parked
    /\ LET h == AcceptInput(history, text, imgs) IN
       /\ history' = h
       /\ loopStart' = Len(h)
       /\ WhileHead(h, 0, "", 0)
    /\ userInput' = text
    /\ images' = imgs
    /\ callId' = callNo + 1
    /\ owner' = Owners(owner, history', callId')
    /\ onMessage' = IF IsContinuation(history, text) THEN <<>>
                    ELSE Notify(<<>>, Msg("user", text, <<>>, 0, imgs))
    /\ callNo' = callNo + 1
    /\ dispatchedIds' = {}
    /\ invokedIds' = {}
    /\ raisedIds' = {}
    /\ allToolTurns' = TRUE
    /\ chatFailed' = FALSE
    /\ memFailed' = FALSE
    /\ UNCHANGED <<config, nextId, memory, database, retrieval, apart>>

\* the event loop turns to the other call in flight: what that call awaits settles
\* before what this one awaits (or this one has ended)
Resume ==
    /\ other # NoCall
    /\ other' = IF pc = "idle" THEN NoCall ELSE Parked
    /\ pc' = other.pc
    /\ iteration' = other.iteration
    /\ finalContent' = other.finalContent
    /\ optimizedHistory' = other.optimizedHistory
    /\ toolDefs' = other.toolDefs
    /\ toolCalls' = other.toolCalls
    /\ tcIdx' = other.tcIdx
    /\ userInput' = other.userInput
    /\ images' = other.images
    /\ callId' = other.callId
    /\ onMessage' = other.onMessage
    /\ loopStart' = other.loopStart
    /\ chatRequests' = other.chatRequests
    /\ dispatchedIds' = other.dispatchedIds
    /\ invokedIds' = other.invokedIds
    /\ raisedIds' = other.raisedIds
    /\ allToolTurns' = other.allToolTurns
    /\ chatFailed' = other.chatFailed
    /\ memFailed' = other.memFailed
    /\ UNCHANGED <<history, owner, config, result, callNo, nextId, memory, database,
                   retrieval, apart>>

(* --------------------------- DatabaseService.init ----------------------- *)

\* what the setup puts into the database file
Tables == "tables"
MigratedColumns == <<"messages.embedding", "messages.images", "memory.embedding">>
\* the table each of them is added to
TableOf == <<"messages", "messages", "memory">>
FullSchema == {Tables} \cup { MigratedColumns[i] : i \in 1..Len(MigratedColumns) }

\* CREATE TABLE IF NOT EXISTS sessions / messages / memory: a table that is there is
\* left as it is; a memory table created now has its embedding column
CreateTables(sch) ==
    IF Tables \in sch THEN sch ELSE sch \cup {Tables, "memory.embedding"}

\* PRAGMA table_info(table): the migrated columns the table has
TableInfo(sch, table) ==
    { MigratedColumns[i] :
        i \in { j \in 1..Len(MigratedColumns) :
                   TableOf[j] = table /\ MigratedColumns[j] \in sch } }

\* if (!msgTableInfo.some(...)) / if (!memTableInfo.some(...)): the i-th ALTER is due
AlterDue(i, msgInfo, memInfo) ==
    IF i = 3 THEN MigratedColumns[i] \notin memInfo ELSE MigratedColumns[i] \notin msgInfo

\* the step after the first i migrations were looked at: the next ALTER that is due,
\* or the end of the async function
AfterMigration(i, msgInfo, memInfo) ==
    IF \E j \in (i + 1)..Len(MigratedColumns) : AlterDue(j, msgInfo, memInfo)
    THEN [step |-> "alter",
          col |-> CHOOSE j \in (i + 1)..Len(MigratedColumns) :
                     /\ AlterDue(j, msgInfo, memInfo)
                     /\ \A k \in (i + 1)..(j - 1) : ~AlterDue(k, msgInfo, memInfo)]
    ELSE [step |-> "done", col |-> 0]

\* an init() call that has not been made
NotCalled == [pc |-> "out", promise |-> 0, complete |-> FALSE]

\* the store is fully set up: opened, all tables and columns there, the function ended
StoreComplete(d, sch, st) == d = "open" /\ sch = FullSchema /\ st.step = "done"

\* an init() that does not look at initPromise
initWithoutPromiseCheck(c) ==
    /\ callers[c] = NotCalled
    /\ IF db # "null"
       THEN /\ callers' = [callers EXCEPT ![c] =
                             [pc |-> "returned", promise |-> 0,
                              complete |-> StoreComplete(db, schema, setup)]]
            /\ UNCHANGED <<db, initPromise, promises, setup, msgTableInfo, memTableInfo,
                           schema, opens, creates, failures>>
       ELSE /\ promises' = Append(promises, "pending")
            /\ initPromise' = Len(promises) + 1
            /\ setup' = [step |-> "open", col |-> 0]
            /\ opens' = opens + 1
            /\ callers' = [callers EXCEPT ![c] =
                             [pc |-> "awaiting", promise |-> Len(promises) + 1,
                              complete |-> FALSE]]
            /\ UNCHANGED <<db, msgTableInfo, memTableInfo, schema, creates, failures>>
    /\ UNCHANGED agent

\* init(), by the caller c, up to its return or its await: return when this.db is set,
\* hand back this.initPromise when it is set, else start the async function (which
\* runs up to await SQLite.openDatabaseAsync) and keep its promise in this.initPromise
init(c) ==
    /\ callers[c] = NotCalled
    /\ IF db # "null"
       THEN /\ callers' = [callers EXCEPT ![c] =
                             [pc |-> "returned", promise |-> 0,
                              complete |-> StoreComplete(db, schema, setup)]]
            /\ UNCHANGED <<db, initPromise, promises, setup, msgTableInfo, memTableInfo,
                           schema, opens, creates, failures>>
       ELSE IF initPromise # 0
       THEN /\ callers' = [callers EXCEPT ![c] =
                             [pc |-> "awaiting", promise |-> initPromise,
                              complete |-> FALSE]]
            /\ UNCHANGED <<db, initPromise, promises, setup, msgTableInfo, memTableInfo,
                           schema, opens, creates, failures>>
       ELSE /\ promises' = Append(promises, "pending")
            /\ initPromise' = Len(promises) + 1
            /\ setup' = [step |-> "open", col |-> 0]
            /\ opens' = opens + 1
            /\ callers' = [callers EXCEPT ![c] =
                             [pc |-> "awaiting", promise |-> Len(promises) + 1,
                              complete |-> FALSE]]
            /\ UNCHANGED <<db, msgTableInfo, memTableInfo, schema, creates, failures>>
    /\ UNCHANGED agent

\* await SQLite.openDatabaseAsync resolves: this.db is set, the CREATE TABLE statements
\* are sent
OpenResolves ==
    /\ setup.step = "open"
    /\ db' = "open"
    /\ setup' = [step |-> "create", col |-> 0]
    /\ creates' = creates + 1
    /\ UNCHANGED <<initPromise, promises, msgTableInfo, memTableInfo, schema, callers,
                   opens, failures, agent>>

\* await this.db.execAsync(CREATE TABLE ...) resolves: PRAGMA table_info(messages)
CreateResolves ==
    /\ setup.step = "create"
    /\ schema' = CreateTables(schema)
    /\ setup' = [step |-> "info", col |-> 1]
    /\ UNCHANGED <<db, initPromise, promises, msgTableInfo, memTableInfo, callers, opens,
                   creates, failures, agent>>

\* the async function of init() ends: its promise is fulfilled
\* (this.initPromise keeps pointing at it)
Fulfilled(ps) == [ps EXCEPT ![initPromise] = "fulfilled"]

\* await this.db.getAllAsync('PRAGMA table_info(messages)') resolves
MessagesInfoResolves ==
    /\ setup = [step |-> "info", col |-> 1]
    /\ msgTableInfo' = TableInfo(schema, "messages")
    /\ setup' = [step |-> "info", col |-> 2]
    /\ UNCHANGED <<db, initPromise, promises, memTableInfo, schema, callers, opens,
                   creates, failures, agent>>

\* await this.db.getAllAsync('PRAGMA table_info(memory)') resolves: the first ALTER
\* that is due is sent, or the function ends
MemoryInfoResolves ==
    /\ setup = [step |-> "info", col |-> 2]
    /\ memTableInfo' = TableInfo(schema, "memory")
    /\ setup' = AfterMigration(0, msgTableInfo, memTableInfo')
    /\ promises' = IF setup'.step = "done" THEN Fulfilled(promises) ELSE promises
    /\ UNCHANGED <<db, initPromise, msgTableInfo, schema, callers, opens, creates,
                   failures, agent>>

\* await this.db.execAsync('ALTER TABLE ... ADD COLUMN ...') resolves
AlterResolves ==
    /\ setup.step = "alter"
    /\ schema' = schema \cup {MigratedColumns[setup.col]}
    /\ setup' = AfterMigration(setup.col, msgTableInfo, memTableInfo)
    /\ promises' = IF setup'.step = "done" THEN Fulfilled(promises) ELSE promises
    /\ UNCHANGED <<db, initPromise, msgTableInfo, memTableInfo, callers, opens, creates,
                   failures, agent>>

\* a catch that leaves this.initPromise pointing at the rejected promise
SetupFailsKeepingPromise ==
    /\ setup.step \in {"open", "create", "info", "alter"}
    /\ promises' = [promises EXCEPT ![initPromise] = "rejected"]
    /\ setup' = [step |-> "failed", col |-> 0]
    /\ failures' = failures + 1
    /\ UNCHANGED <<db, initPromise, msgTableInfo, memTableInfo, schema, callers, opens,
                   creates, agent>>

\* the awaited statement rejects: catch (error) { this.initPromise = null; throw error }
SetupFails ==
    /\ setup.step \in {"open", "create", "info", "alter"}
    /\ promises' = [promises EXCEPT ![initPromise] = "rejected"]
    /\ initPromise' = 0
    /\ setup' = [step |-> "failed", col |-> 0]
    /\ failures' = failures + 1
    /\ UNCHANGED <<db, msgTableInfo, memTableInfo, schema, callers, opens, creates, agent>>

\* the promise an init() call handed back settles: the call returns or raises
InitSettles(c) ==
    /\ callers[c].pc = "awaiting"
    /\ promises[callers[c].promise] # "pending"
    /\ callers' = [callers EXCEPT ![c] =
                     [pc |-> IF promises[callers[c].promise] = "fulfilled"
                             THEN "returned" ELSE "raised",
                      promise |-> callers[c].promise,
                      complete |-> StoreComplete(db, schema, setup)]]
    /\ UNCHANGED <<db, initPromise, promises, setup, msgTableInfo, memTableInfo, schema,
                   opens, creates, failures, agent>>

(* ---------------------------- specifications --------------------------- *)

\* new DatabaseService(): db = null, initPromise = null, nothing called yet
Constructed ==
    /\ db = "null"
    /\ initPromise = 0
    /\ promises = <<>>
    /\ setup = [step |-> "none", col |-> 0]
    /\ msgTableInfo = {}
    /\ memTableInfo = {}
    /\ callers = [c \in 1..MaxInitCalls |-> NotCalled]
    /\ opens = 0
    /\ creates = 0
    /\ failures = 0

\* no similarity search has been made, no memory executor has run, no message was saved
NothingSearched ==
    /\ messages = <<>>
    /\ search = NoSearch
    /\ ops = <<>>

\* observers that are set and raise nothing, a registry built by one register() call
\* per tool, no tools.execute and no truncateMessages made from outside
NothingElse ==
    /\ registrations = tools
    /\ executed = NoExecution
    /\ trunc = NoTruncation

\* the same, with observers that are set and return
NothingOutside ==
    /\ observers = "silent"
    /\ NothingElse

\* the same, and an initial history without a system message
NothingApart ==
    /\ dropped = <<>>
    /\ NothingOutside

\* the service as the agent's specifications see it: no init() call is made in them
StoreClosed ==
    /\ Constructed
    /\ schema = {}
    /\ NothingSearched
    /\ NothingApart

\* no process() call has been made, the memory table is empty
Untouched ==
    /\ userInput = ""
    /\ images = <<>>
    /\ onMessage = <<>>
    /\ memory = <<>>
    /\ callId = 0
    /\ owner = [i \in 1..Len(history) |-> 0]
    /\ other = NoCall
    /\ StoreClosed

\* the state after new Agent(provider, registry, config) with no initial history
Init ==
    /\ systemPrompt \in SystemPrompts
    /\ maxIterations \in IterationBudgets
    /\ \E cfg \in WindowSettings : maxHistory = ConfiguredWindow(cfg)
    /\ tools = InitialTools
    /\ history = InitialHistory(systemPrompt, <<>>)
    /\ pc = "idle"
    /\ iteration = 0
    /\ finalContent = ""
    /\ optimizedHistory = <<>>
    /\ toolDefs = <<>>
    /\ toolCalls = <<>>
    /\ tcIdx = 0
    /\ outcome = "none"
    /\ returned = ""
    /\ callNo = 0
    /\ loopStart = 0
    /\ chatRequests = 0
    /\ dispatchedIds = {}
    /\ invokedIds = {}
    /\ raisedIds = {}
    /\ nextId = 0
    /\ allToolTurns = TRUE
    /\ chatFailed = FALSE
    /\ memFailed = FALSE
    /\ Untouched

\* the calls followed here: every earlier call has taken an assistant turn of the
\* budget and tool-call ids are left, so that the budgets bound the run
WithinBudgets ==
    /\ callNo <= AssistantTurns(history)
    /\ nextId < MaxToolCallIds

Next ==
    \/ \E turn \in UserTurns : WithinBudgets /\ process(turn.userInput, turn.images)
    \/ EmbeddingFails
    \/ EmbeddingResolves
    \/ SearchFails
    \/ \E memories \in MemoryHits : SearchResolves(memories)
    \/ ChatFails
    \/ \E content \in AssistantContents, calls \in ToolCallLists : ChatResolves(content, calls)
    \/ \E behaviour \in ExecutorOutcomes : ExecuteSettles(behaviour)

Spec == Init /\ [][Next]_vars

(* --------------------------- the observers ------------------------------ *)

\* the state after new Agent(provider, registry, config) with no initial history,
\* the observers being left unset, set to callbacks that return, or one of them set
\* to a callback that raises
InitObservers ==
    /\ systemPrompt = Null
    /\ maxIterations \in IterationBudgets
    /\ maxHistory = ConfiguredWindow(0)
    /\ tools = InitialTools
    /\ history = InitialHistory(systemPrompt, <<>>)
    /\ pc = "idle"
    /\ iteration = 0
    /\ finalContent = ""
    /\ optimizedHistory = <<>>
    /\ toolDefs = <<>>
    /\ toolCalls = <<>>
    /\ tcIdx = 0
    /\ outcome = "none"
    /\ returned = ""
    /\ callNo = 0
    /\ loopStart = 0
    /\ chatRequests = 0
    /\ dispatchedIds = {}
    /\ invokedIds = {}
    /\ raisedIds = {}
    /\ nextId = 0
    /\ allToolTurns = TRUE
    /\ chatFailed = FALSE
    /\ memFailed = FALSE
    /\ userInput = ""
    /\ images = <<>>
    /\ onMessage = <<>>
    /\ memory = <<>>
    /\ callId = 0
    /\ owner = [i \in 1..Len(history) |-> 0]
    /\ other = NoCall
    /\ Constructed
    /\ schema = {}
    /\ NothingSearched
    /\ dropped = <<>>
    /\ NothingElse
    /\ observers \in Observers

\* the calls of process() follow one another; a call that ended with an error may be
\* made again
NextObservers ==
    \/ \E turn \in UserTurns : nextId < MaxToolCallIds /\ process(turn.userInput, turn.images)
    \/ \E turn \in UserTurns : ObserverRaisesOnEntry(turn.userInput, turn.images)
    \/ EmbeddingFails
    \/ EmbeddingResolves
    \/ SearchFails
    \/ \E memories \in MemoryHits : SearchResolves(memories)
    \/ ChatFails
    \/ \E content \in AssistantContents, calls \in ToolCallLists : ChatResolves(content, calls)
    \/ \E content \in AssistantContents, calls \in ToolCallLists :
           ObserverRaisesOnTurn(content, calls)
    \/ \E behaviour \in ExecutorOutcomes : ExecuteSettles(behaviour)

SpecObservers == InitObservers /\ [][NextObservers]_vars

(* ------------------- the windowing function on its own ------------------ *)

\* the messages the histories of SpecWindow are made of
WindowMessages ==
    { SystemMsg("You are Memora."),
      Msg("user", "hi", <<>>, 0, <<>>),
      assistantMessage("answer", <<>>),
      assistantMessage(Null, <<[id |-> 1, name |-> "get_weather", arguments |-> "{}"]>>),
      Msg("tool", "sunny", <<>>, 1, <<>>) }

SeqsUpTo(S, n) == UNION { [1..k -> S] : k \in 0..n }

\* any history of at most MaxHistLen messages, any configured window
InitWindow ==
    /\ history \in SeqsUpTo(WindowMessages, MaxHistLen)
    /\ \E cfg \in WindowSettings : maxHistory = ConfiguredWindow(cfg)
    /\ systemPrompt = Null
    /\ maxIterations = 0
    /\ tools = InitialTools
    /\ pc = "window"
    /\ iteration = 0
    /\ finalContent = ""
    /\ optimizedHistory = <<>>
    /\ toolDefs = <<>>
    /\ toolCalls = <<>>
    /\ tcIdx = 0
    /\ outcome = "none"
    /\ returned = ""
    /\ callNo = 0
    /\ loopStart = 0
    /\ chatRequests = 0
    /\ dispatchedIds = {}
    /\ invokedIds = {}
    /\ raisedIds = {}
    /\ nextId = 0
    /\ allToolTurns = TRUE
    /\ chatFailed = FALSE
    /\ memFailed = FALSE
    /\ Untouched

\* let optimizedHistory = this.getOptimizedHistory()
Window ==
    /\ pc = "window"
    /\ optimizedHistory' = getOptimizedHistory(history, maxHistory)
    /\ pc' = "windowed"
    /\ UNCHANGED <<history, owner, config, iteration, finalContent, toolDefs, toolCalls, tcIdx, result,
                   ghosts, args, onMessage, environment>>

NextWindow == Window

SpecWindow == InitWindow /\ [][NextWindow]_vars

(* ------------------- histories longer than the window ------------------- *)

\* the messages a conversation is made of
ConversationMessages == { m \in WindowMessages : m.role # "system" }

\* the i-th message of an exchange of questions and answers, each with its own text
Exchange(i) ==
    IF i % 2 = 1
    THEN Msg("user", ToString(i), <<>>, 0, <<>>)
    ELSE assistantMessage(ToString(i), <<>>)

\* the messages the window has no room for: an exchange that ends in any message
OlderMessages(k) ==
    IF k = 0
    THEN { <<>> }
    ELSE { [i \in 1..k |-> IF i < k THEN Exchange(i) ELSE m] : m \in ConversationMessages }

\* the most recent DefaultMaxHistory messages: any three messages, then an exchange
RecentMessages ==
    { [i \in 1..DefaultMaxHistory |-> IF i <= 3 THEN head[i] ELSE Exchange(MaxOlder + 1 + i)] :
        head \in [1..3 -> ConversationMessages] }

LongHistories ==
    UNION { { older \o recent : older \in OlderMessages(k), recent \in RecentMessages } :
            k \in 0..MaxOlder }

\* an agent without a system prompt and with the default window, over a history of
\* DefaultMaxHistory to DefaultMaxHistory + MaxOlder messages
InitLongHistory ==
    /\ history \in LongHistories
    /\ maxHistory = ConfiguredWindow(0)
    /\ systemPrompt = Null
    /\ maxIterations = 0
    /\ tools = InitialTools
    /\ pc = "window"
    /\ iteration = 0
    /\ finalContent = ""
    /\ optimizedHistory = <<>>
    /\ toolDefs = <<>>
    /\ toolCalls = <<>>
    /\ tcIdx = 0
    /\ outcome = "none"
    /\ returned = ""
    /\ callNo = 0
    /\ loopStart = 0
    /\ chatRequests = 0
    /\ dispatchedIds = {}
    /\ invokedIds = {}
    /\ raisedIds = {}
    /\ nextId = 0
    /\ allToolTurns = TRUE
    /\ chatFailed = FALSE
    /\ memFailed = FALSE
    /\ Untouched

NextLongHistory == Window

SpecLongHistory == InitLongHistory /\ [][NextLongHistory]_vars

(* -------------- initial histories that hold system messages ------------- *)

\* the messages of an initialHistory: a system message of an earlier configuration, a
\* user message, an assistant message
PriorMessages ==
    { SystemMsg("You were Memora."),
      Msg("user", "hello", <<>>, 0, <<>>),
      assistantMessage("answer", <<>>) }

\* new Agent(provider, registry, config, initialHistory) for any initialHistory of at
\* most MaxHistLen messages
InitHistory ==
    /\ systemPrompt \in SystemPrompts
    /\ maxIterations = 1
    /\ maxHistory = ConfiguredWindow(0)
    /\ tools = InitialTools
    /\ \E initial \in SeqsUpTo(PriorMessages, MaxHistLen) :
          /\ history = InitialHistory(systemPrompt, initial)
          /\ dropped = SelectSeq(initial, IsSystem)
    /\ pc = "idle"
    /\ iteration = 0
    /\ finalContent = ""
    /\ optimizedHistory = <<>>
    /\ toolDefs = <<>>
    /\ toolCalls = <<>>
    /\ tcIdx = 0
    /\ outcome = "none"
    /\ returned = ""
    /\ callNo = 0
    /\ loopStart = 0
    /\ chatRequests = 0
    /\ dispatchedIds = {}
    /\ invokedIds = {}
    /\ raisedIds = {}
    /\ nextId = 0
    /\ allToolTurns = TRUE
    /\ chatFailed = FALSE
    /\ memFailed = FALSE
    /\ userInput = ""
    /\ images = <<>>
    /\ onMessage = <<>>
    /\ memory = <<>>
    /\ callId = 0
    /\ owner = [i \in 1..Len(history) |-> 0]
    /\ other = NoCall
    /\ Constructed
    /\ schema = {}
    /\ NothingSearched
    /\ NothingOutside

\* calls of process() and of clearHistory(), the latter at any time
NextHistory ==
    \/ process("hi", <<>>)
    \/ EmbeddingFails
    \/ ChatFails
    \/ \E calls \in ToolCallLists : ChatResolves("answer", calls)
    \/ \E behaviour \in ExecutorOutcomes : ExecuteSettles(behaviour)
    \/ clearHistory

SpecHistory == InitHistory /\ [][NextHistory]_vars

(* ------------------------- a registry that changes --------------------- *)

\* the definitions handed to register(): two tools, each in two versions
ToolDefinitions ==
    { Definition(name, description) :
        name \in {"get_weather", "get_time"}, description \in {"first", "second"} }

\* the executor registered with a definition
ExecutorFor(definition) == "execute_" \o definition.name \o "_" \o definition.description

\* an agent over a registry that is empty when the agent is constructed
InitRegistry ==
    /\ systemPrompt = Null
    /\ maxIterations = 2
    /\ maxHistory = ConfiguredWindow(0)
    /\ tools = <<>>
    /\ history = InitialHistory(systemPrompt, <<>>)
    /\ pc = "idle"
    /\ iteration = 0
    /\ finalContent = ""
    /\ optimizedHistory = <<>>
    /\ toolDefs = <<>>
    /\ toolCalls = <<>>
    /\ tcIdx = 0
    /\ outcome = "none"
    /\ returned = ""
    /\ callNo = 0
    /\ loopStart = 0
    /\ chatRequests = 0
    /\ dispatchedIds = {}
    /\ invokedIds = {}
    /\ raisedIds = {}
    /\ nextId = 0
    /\ allToolTurns = TRUE
    /\ chatFailed = FALSE
    /\ memFailed = FALSE
    /\ Untouched

\* register() and tools.execute() calls at any time, around and within one call of
\* process() that takes up to two turns
NextRegistry ==
    \/ \E d \in ToolDefinitions : register(d, ExecutorFor(d))
    \/ \E name \in {"get_weather", "get_time"} :
          executed = NoExecution /\ ExecuteRuns(name, CHOOSE b \in ExecutorOutcomes : ~b.raises)
    \/ callNo = 0 /\ process("hi", <<>>)
    \/ EmbeddingFails
    \/ EmbeddingResolves
    \/ SearchResolves(<<>>)
    \/ \E calls \in ToolCallLists :
          Len(calls) <= 1 /\ ChatResolves("answer", calls)
    \/ \E behaviour \in ExecutorOutcomes : ExecuteSettles(behaviour)

SpecRegistry == InitRegistry /\ [][NextRegistry]_vars

(* --------------------- the entry of process() on its own ---------------- *)

\* process(userInput, images) with and without images
InputTurns == { [userInput |-> "hi", images |-> <<>>],
                [userInput |-> "hi", images |-> <<"img1">>],
                [userInput |-> "hi", images |-> <<"img2">>],
                [userInput |-> "",   images |-> <<>>] }

\* the initialHistory handed to the constructor
InitialHistories ==
    { <<>>,
      <<Msg("user", "hi", <<>>, 0, <<>>)>>,
      <<Msg("user", "hi", <<>>, 0, <<"img1">>)>>,
      <<Msg("user", "hi", <<>>, 0, <<>>), assistantMessage("answer", <<>>)>> }

\* new Agent(provider, registry, config, initialHistory), no process() call made yet
InitInput ==
    /\ systemPrompt \in SystemPrompts
    /\ maxIterations \in 0..1
    /\ \E cfg \in WindowSettings : maxHistory = ConfiguredWindow(cfg)
    /\ tools = InitialTools
    /\ \E initial \in InitialHistories : history = InitialHistory(systemPrompt, initial)
    /\ pc = "idle"
    /\ iteration = 0
    /\ finalContent = ""
    /\ optimizedHistory = <<>>
    /\ toolDefs = <<>>
    /\ toolCalls = <<>>
    /\ tcIdx = 0
    /\ outcome = "none"
    /\ returned = ""
    /\ callNo = 0
    /\ loopStart = 0
    /\ chatRequests = 0
    /\ dispatchedIds = {}
    /\ invokedIds = {}
    /\ raisedIds = {}
    /\ nextId = 0
    /\ allToolTurns = TRUE
    /\ chatFailed = FALSE
    /\ memFailed = FALSE
    /\ Untouched

\* calls of process() that end at once (maxIterations = 0) or on a failed chat request
NextInput ==
    \/ \E turn \in InputTurns : process(turn.userInput, turn.images)
    \/ EmbeddingFails
    \/ ChatFails

SpecInput == InitInput /\ [][NextInput]_vars

\* whole calls of process() on an agent built with an initial history, with images
NextTurns ==
    \/ \E turn \in InputTurns : WithinBudgets /\ process(turn.userInput, turn.images)
    \/ EmbeddingFails
    \/ ChatFails
    \/ \E calls \in ToolCallLists : ChatResolves("answer", calls)
    \/ \E behaviour \in ExecutorOutcomes : ExecuteSettles(behaviour)

SpecTurns == InitInput /\ [][NextTurns]_vars

(* ------------------------- the agent with memory tools ------------------ *)

\* the calls of the memory tools a turn can request
MemoryCallKinds == { [name |-> "save_memory",   arguments |-> SaveArgs1],
                     [name |-> "save_memory",   arguments |-> SaveArgs2],
                     [name |-> "get_memory",    arguments |-> KeyArgs],
                     [name |-> "get_memory",    arguments |-> "{}"],
                     [name |-> "delete_memory", arguments |-> KeyArgs] }

\* the tool calls the provider may return: k calls of memory tools with fresh ids
MemoryCallLists ==
    UNION { { [i \in 1..k |-> [id |-> nextId + i, name |-> kinds[i].name,
                                arguments |-> kinds[i].arguments]] :
                kinds \in [1..k -> MemoryCallKinds] } :
            k \in 0..(MaxToolCallIds - nextId) }

\* the rows table memory holds when the agent is built
StoredMemories == { <<>>, <<[key |-> "k1", content |-> "c0", embedding |-> Null]>> }

\* the agent of buildAgent: the memory tools registered, the store as it was left
InitMemory ==
    /\ systemPrompt \in SystemPrompts
    /\ maxIterations \in 1..2
    /\ maxHistory = ConfiguredWindow(0)
    /\ tools = MemoryTools
    /\ history = InitialHistory(systemPrompt, <<>>)
    /\ pc = "idle"
    /\ iteration = 0
    /\ finalContent = ""
    /\ optimizedHistory = <<>>
    /\ toolDefs = <<>>
    /\ toolCalls = <<>>
    /\ tcIdx = 0
    /\ outcome = "none"
    /\ returned = ""
    /\ callNo = 0
    /\ loopStart = 0
    /\ chatRequests = 0
    /\ dispatchedIds = {}
    /\ invokedIds = {}
    /\ raisedIds = {}
    /\ nextId = 0
    /\ allToolTurns = TRUE
    /\ chatFailed = FALSE
    /\ memFailed = FALSE
    /\ userInput = ""
    /\ images = <<>>
    /\ onMessage = <<>>
    /\ memory \in StoredMemories
    /\ callId = 0
    /\ owner = [i \in 1..Len(history) |-> 0]
    /\ other = NoCall
    /\ StoreClosed

\* no row of the store has an embedding, so the similarity search finds nothing
NextMemory ==
    \/ process("hi", <<>>)
    \/ EmbeddingFails
    \/ EmbeddingResolves
    \/ SearchResolves(<<>>)
    \/ \E calls \in MemoryCallLists : ChatResolves(Null, calls)
    \/ \E st \in StatementOutcomes : MemoryToolSettles(st)

SpecMemory == InitMemory /\ [][NextMemory]_vars

(* ---------------------- the agent with tools that return images --------- *)

\* what an invoked executor does when it may also return images
ToolOutcomes ==
    ExecutorOutcomes
    \cup { [raises |-> FALSE, forLLM |-> "chart", images |-> <<"chart.png">>, message |-> ""] }

NextTools ==
    \/ process("hi", <<>>)
    \/ EmbeddingFails
    \/ \E content \in AssistantContents, calls \in ToolCallLists : ChatResolves(content, calls)
    \/ \E behaviour \in ToolOutcomes : ExecuteSettles(behaviour)

SpecTools == Init /\ [][NextTools]_vars

(* ------------------------ calls that overlap in time -------------------- *)

\* an agent without a system prompt and with the default window
InitConcurrent ==
    /\ systemPrompt = Null
    /\ maxIterations \in 1..2
    /\ maxHistory = ConfiguredWindow(0)
    /\ tools = InitialTools
    /\ history = InitialHistory(systemPrompt, <<>>)
    /\ pc = "idle"
    /\ iteration = 0
    /\ finalContent = ""
    /\ optimizedHistory = <<>>
    /\ toolDefs = <<>>
    /\ toolCalls = <<>>
    /\ tcIdx = 0
    /\ outcome = "none"
    /\ returned = ""
    /\ callNo = 0
    /\ loopStart = 0
    /\ chatRequests = 0
    /\ dispatchedIds = {}
    /\ invokedIds = {}
    /\ raisedIds = {}
    /\ nextId = 0
    /\ allToolTurns = TRUE
    /\ chatFailed = FALSE
    /\ memFailed = FALSE
    /\ Untouched

\* process() may be called at any time, also while a call is in flight
NextConcurrent ==
    \/ \E turn \in UserTurns : process(turn.userInput, turn.images)
    \/ \E turn \in UserTurns : processInFlight(turn.userInput, turn.images)
    \/ Resume
    \/ EmbeddingFails
    \/ ChatFails
    \/ \E calls \in ToolCallLists : ChatResolves("answer", calls)
    \/ \E behaviour \in ExecutorOutcomes : ExecuteSettles(behaviour)

SpecConcurrent == InitConcurrent /\ [][NextConcurrent]_vars

(* -------------------------- the store being set up --------------------- *)

\* the database file found on the device: none yet, one written by a version without
\* the added columns, one half migrated, one fully set up
FoundSchemas ==
    { {}, {Tables}, {Tables, "messages.embedding"}, FullSchema }

\* the shared dbService before its first init(), next to an agent that is not used
InitStore ==
    /\ systemPrompt = Null
    /\ maxIterations = 0
    /\ maxHistory = ConfiguredWindow(0)
    /\ tools = MemoryTools
    /\ history = <<>>
    /\ pc = "idle"
    /\ iteration = 0
    /\ finalContent = ""
    /\ optimizedHistory = <<>>
    /\ toolDefs = <<>>
    /\ toolCalls = <<>>
    /\ tcIdx = 0
    /\ outcome = "none"
    /\ returned = ""
    /\ callNo = 0
    /\ loopStart = 0
    /\ chatRequests = 0
    /\ dispatchedIds = {}
    /\ invokedIds = {}
    /\ raisedIds = {}
    /\ nextId = 0
    /\ allToolTurns = TRUE
    /\ chatFailed = FALSE
    /\ memFailed = FALSE
    /\ userInput = ""
    /\ images = <<>>
    /\ onMessage = <<>>
    /\ memory = <<>>
    /\ callId = 0
    /\ owner = <<>>
    /\ other = NoCall
    /\ Constructed
    /\ NothingSearched
    /\ NothingApart
    /\ schema \in FoundSchemas

\* init() is called by anyone at any time; every awaited statement resolves or rejects
NextStore ==
    \/ \E c \in 1..MaxInitCalls : init(c)
    \/ OpenResolves
    \/ CreateResolves
    \/ MessagesInfoResolves
    \/ MemoryInfoResolves
    \/ AlterResolves
    \/ SetupFails
    \/ \E c \in 1..MaxInitCalls : InitSettles(c)

SpecStore == InitStore /\ [][NextStore]_vars

(* ---------------------- the memory executors on their own --------------- *)

\* provider.createEmbedding(text) of the provider the executor was built with: one
\* vector per text
createEmbedding(text) ==
    CASE text = "k1: c1" -> <<1, 0>>
      [] text = "k1: c2" -> <<0, 1>>
      [] text = "k2: c1" -> <<1, 1>>
      [] OTHER           -> <<-1, 0>>

\* embeddingJson: null without a provider, else the JSON of the provider's vector
embeddingJson(a, provided) ==
    IF provided THEN JSONStringify(createEmbedding(a.key \o ": " \o a.content)) ELSE Null

\* what is left alone by a run of a memory executor outside the agent
besidesMemory == <<history, owner, config, locals, result, ghosts, args, onMessage, other,
                   database, messages, search, apart>>

\* the executor of save_memory runs on the arguments a; provided: it was built with an
\* embedding provider
SaveMemoryRuns(a, provided, st) ==
    /\ Len(ops) < MaxOps
    /\ LET embedding == IF st.raises THEN Null ELSE embeddingJson(a, provided)
           run == saveMemory(memory, a, embedding, st) IN
       /\ memory' = run.rows
       /\ ops' = Append(ops, Ran("save_memory", a, embedding, run))
    /\ UNCHANGED besidesMemory

\* the executor of get_memory runs on the arguments a
GetMemoryRuns(a, st) ==
    /\ Len(ops) < MaxOps
    /\ LET run == getMemory(memory, a, st) IN
       /\ memory' = run.rows
       /\ ops' = Append(ops, Ran("get_memory", a, Null, run))
    /\ UNCHANGED besidesMemory

\* the executor of delete_memory runs on the arguments a
DeleteMemoryRuns(a, st) ==
    /\ Len(ops) < MaxOps
    /\ LET run == deleteMemory(memory, a, st) IN
       /\ memory' = run.rows
       /\ ops' = Append(ops, Ran("delete_memory", a, Null, run))
    /\ UNCHANGED besidesMemory

\* the arguments the executors are called with
MemoryKeys == {"k1", "k2"}
SaveArguments == [key : MemoryKeys, content : {"c1", "c2"}]
KeyArguments == [key : MemoryKeys, content : {Null}]
GetArguments == [key : MemoryKeys \cup {Null}, content : {Null}]

\* an agent that stays at rest
AgentAtRest ==
    /\ systemPrompt = Null
    /\ maxIterations = 0
    /\ maxHistory = ConfiguredWindow(0)
    /\ history = <<>>
    /\ pc = "idle"
    /\ iteration = 0
    /\ finalContent = ""
    /\ optimizedHistory = <<>>
    /\ toolDefs = <<>>
    /\ toolCalls = <<>>
    /\ tcIdx = 0
    /\ outcome = "none"
    /\ returned = ""
    /\ callNo = 0
    /\ loopStart = 0
    /\ chatRequests = 0
    /\ dispatchedIds = {}
    /\ invokedIds = {}
    /\ raisedIds = {}
    /\ nextId = 0
    /\ allToolTurns = TRUE
    /\ chatFailed = FALSE
    /\ memFailed = FALSE
    /\ userInput = ""
    /\ images = <<>>
    /\ onMessage = <<>>
    /\ callId = 0
    /\ owner = <<>>
    /\ other = NoCall

\* an empty table memory, the executors built
InitExecutors ==
    /\ AgentAtRest
    /\ tools = MemoryTools
    /\ memory = <<>>
    /\ StoreClosed

\* the executors are run in any order, on any arguments, with or without a provider
NextExecutors ==
    \/ \E a \in SaveArguments, provided \in BOOLEAN, st \in StatementOutcomes :
          SaveMemoryRuns(a, provided, st)
    \/ \E a \in GetArguments, st \in StatementOutcomes : GetMemoryRuns(a, st)
    \/ \E a \in KeyArguments, st \in StatementOutcomes : DeleteMemoryRuns(a, st)

SpecExecutors == InitExecutors /\ [][NextExecutors]_vars

(* ------------------------ the similarity searches on their own ---------- *)

\* what is left alone by a similarity search
besidesSearch == <<history, owner, config, locals, result, ghosts, args, onMessage, memory,
                   other, database, messages, ops, apart>>

\* what a search hands back, or that it failed
Searched(kind, queryEmbedding, limit, st, results) ==
    [kind |-> kind, queryEmbedding |-> queryEmbedding, limit |-> limit,
     failed |-> st.raises, results |-> IF st.raises THEN <<>> ELSE results]

\* searchSemantic(queryEmbedding, limit) settles: getAllAsync raised, or the ranked
\* rows are returned
SearchSemanticSettles(queryEmbedding, limit, st) ==
    /\ \E results \in searchSemantic(messages, queryEmbedding, limit) :
          search' = Searched("messages", queryEmbedding, limit, st, results)
    /\ UNCHANGED besidesSearch

\* searchSemanticMemory(queryEmbedding, limit) settles
SearchSemanticMemorySettles(queryEmbedding, limit, st) ==
    /\ \E results \in searchSemanticMemory(memory, queryEmbedding, limit) :
          search' = Searched("memory", queryEmbedding, limit, st, results)
    /\ UNCHANGED besidesSearch

\* the embedding column of a row: null, or the JSON of a vector
EmbeddingColumn == {Null} \cup { JSONStringify(v) : v \in Vectors }

\* the rows table memory can hold: distinct keys, any embedding
MemoryTables ==
    UNION { { [i \in 1..n |-> [key |-> "k" \o ToString(i), content |-> "c",
                                embedding |-> col[i]]] : col \in [1..n -> EmbeddingColumn] } :
            n \in 0..MaxRows }

\* the kinds of rows table messages holds here
MessageRows ==
    { [role |-> "user",      content |-> "hi",     embedding |-> "[1,0]"],
      [role |-> "user",      content |-> "hello",  embedding |-> Null],
      [role |-> "assistant", content |-> "answer", embedding |-> "[1,1]"],
      [role |-> "tool",      content |-> "sunny",  embedding |-> "[1,0]"],
      [role |-> "system",    content |-> "prompt", embedding |-> "[0,1]"] }

MessageTables == UNION { [1..n -> MessageRows] : n \in 0..MaxRows }

\* the limits a caller passes
Limits == 0..MaxRows

\* tables as earlier runs left them; one of the two is looked at, the other is empty
InitSearch ==
    /\ AgentAtRest
    /\ tools = MemoryTools
    /\ \/ memory \in MemoryTables /\ messages = <<>>
       \/ memory = <<>> /\ messages \in MessageTables
    /\ Constructed
    /\ schema = {}
    /\ search = NoSearch
    /\ ops = <<>>
    /\ NothingApart

\* one search is made on the tables: of either kind, with any query and limit
NextSearch ==
    \/ \E q \in Vectors, limit \in Limits, st \in StatementOutcomes :
          search = NoSearch /\ SearchSemanticSettles(q, limit, st)
    \/ \E q \in Vectors, limit \in Limits, st \in StatementOutcomes :
          search = NoSearch /\ SearchSemanticMemorySettles(q, limit, st)

SpecSearch == InitSearch /\ [][NextSearch]_vars

(* ------------------ proactive retrieval over the stored facts ----------- *)

\* the records a search returned, as the agent reads them (key, content)
Rows(results) == [i \in 1..Len(results) |-> results[i].row]

\* the save_memory calls a turn can request
SaveCallLists ==
    UNION { { [i \in 1..k |-> [id |-> nextId + i, name |-> "save_memory",
                                arguments |-> texts[i]]] :
                texts \in [1..k -> {SaveArgs1, SaveArgs2}] } :
            k \in 0..(MaxToolCallIds - nextId) }

\* a fact an earlier build saved with an embedding provider
EmbeddedFact == [key |-> "k0", content |-> "c0", embedding |-> "[1,0]"]

\* a table messages with rows of every kind
MessageTable ==
    << [role |-> "tool",      content |-> "sunny",  embedding |-> "[1,0]"],
       [role |-> "user",      content |-> "hi",     embedding |-> "[1,0]"],
       [role |-> "user",      content |-> "hello",  embedding |-> Null],
       [role |-> "system",    content |-> "prompt", embedding |-> "[0,1]"],
       [role |-> "assistant", content |-> "answer", embedding |-> "[1,1]"] >>

\* the agent of buildAgent (memory tools built without a provider) with a system
\* prompt, over a store that holds an embedded fact or none
InitRetrieval ==
    /\ systemPrompt = "You are Memora."
    /\ maxIterations = 1
    /\ maxHistory = ConfiguredWindow(0)
    /\ tools = MemoryTools
    /\ history = InitialHistory(systemPrompt, <<>>)
    /\ pc = "idle"
    /\ iteration = 0
    /\ finalContent = ""
    /\ optimizedHistory = <<>>
    /\ toolDefs = <<>>
    /\ toolCalls = <<>>
    /\ tcIdx = 0
    /\ outcome = "none"
    /\ returned = ""
    /\ callNo = 0
    /\ loopStart = 0
    /\ chatRequests = 0
    /\ dispatchedIds = {}
    /\ invokedIds = {}
    /\ raisedIds = {}
    /\ nextId = 0
    /\ allToolTurns = TRUE
    /\ chatFailed = FALSE
    /\ memFailed = FALSE
    /\ userInput = ""
    /\ images = <<>>
    /\ onMessage = <<>>
    /\ memory \in { <<>>, <<EmbeddedFact>> }
    /\ callId = 0
    /\ owner = [i \in 1..Len(history) |-> 0]
    /\ other = NoCall
    /\ Constructed
    /\ schema = {}
    /\ messages \in { <<>>, MessageTable }
    /\ search = NoSearch
    /\ ops = <<>>
    /\ NothingApart

\* calls of process() whose retrieval goes through searchSemanticMemory on the rows
\* of table memory, and whose turns save facts; one message search at any time
NextRetrieval ==
    \/ process("hi", <<>>)
    \/ EmbeddingFails
    \/ EmbeddingResolves
    \/ \E q \in Vectors : \E found \in searchSemanticMemory(memory, q, MemoryTopK) :
          SearchResolves(Rows(found))
    \/ \E calls \in SaveCallLists : ChatResolves(Null, calls)
    \/ \E st \in StatementOutcomes : MemoryToolSettles(st)
    \/ \E q \in Vectors, st \in StatementOutcomes :
          search = NoSearch /\ SearchSemanticSettles(q, DefaultLimit, st)

SpecRetrieval == InitRetrieval /\ [][NextRetrieval]_vars

(* ---------------------- the messages of the sessions -------------------- *)

\* the rows of a session
OfSession(rows, sessionId) ==
    LET Belongs(r) == r.session_id = sessionId IN SelectSeq(rows, Belongs)

RECURSIVE OrderByIdAsc(_)
\* ORDER BY id ASC over rows of distinct ids
OrderByIdAsc(rows) ==
    IF Len(rows) = 0 THEN <<>>
    ELSE LET least == CHOOSE i \in 1..Len(rows) : \A j \in 1..Len(rows) : rows[i].id <= rows[j].id
             rest == [k \in 1..(Len(rows) - 1) |-> IF k < least THEN rows[k] ELSE rows[k + 1]]
         IN  <<rows[least]>> \o OrderByIdAsc(rest)

\* INSERT INTO messages: the row gets the next id of the AUTOINCREMENT sequence
InsertMessage(rows, seq, sessionId, message) ==
    Append(rows, [id |-> seq + 1, session_id |-> sessionId, role |-> message.role,
                  content |-> message.content, embedding |-> Null])

\* SELECT role, content, ... FROM messages WHERE session_id = ? ORDER BY id ASC, mapped
\* to messages
getMessages(rows, sessionId) ==
    LET found == OrderByIdAsc(OfSession(rows, sessionId)) IN
    [i \in 1..Len(found) |-> [role |-> found[i].role, content |-> found[i].content]]

\* a DELETE that spares the row of the target id
DeleteAfterId(rows, sessionId, targetId) ==
    LET Stays(r) == ~(r.session_id = sessionId /\ r.id > targetId) IN SelectSeq(rows, Stays)

\* DELETE FROM messages WHERE session_id = ? AND id >= ?
DeleteFromId(rows, sessionId, targetId) ==
    LET Stays(r) == ~(r.session_id = sessionId /\ r.id >= targetId) IN SelectSeq(rows, Stays)

\* what the message operations leave alone
besidesMessages == <<history, owner, config, locals, result, ghosts, args, onMessage, memory,
                     other, database, search, ops, observers, dropped, registrations,
                     executed>>

\* saveMessage(sessionId, message) settles
SaveMessageSettles(sessionId) ==
    /\ trunc.seq < MaxSaved
    /\ messages' = InsertMessage(messages, trunc.seq, sessionId,
                                 [role |-> "user", content |-> "m" \o ToString(trunc.seq + 1)])
    /\ trunc' = [trunc EXCEPT !.seq = trunc.seq + 1]
    /\ UNCHANGED besidesMessages

\* truncateMessages(sessionId, index) up to its DELETE: the ids of the session are
\* read; with rows.length > index the DELETE from rows[index].id is issued, otherwise
\* the call returns
TruncateSelects(sessionId, index) ==
    /\ trunc.step # "delete"
    /\ LET rows == OrderByIdAsc(OfSession(messages, sessionId)) IN
       trunc' = IF Len(rows) > index
                THEN [step |-> "delete", seq |-> trunc.seq, sessionId |-> sessionId,
                      index |-> index, targetId |-> rows[index + 1].id]
                ELSE [step |-> "done", seq |-> trunc.seq, sessionId |-> sessionId,
                      index |-> index, before |-> messages, after |-> messages]
    /\ UNCHANGED messages
    /\ UNCHANGED besidesMessages

\* the DELETE of truncateMessages settles and the call returns
TruncateDeletes ==
    /\ trunc.step = "delete"
    /\ messages' = DeleteFromId(messages, trunc.sessionId, trunc.targetId)
    /\ trunc' = [step |-> "done", seq |-> trunc.seq, sessionId |-> trunc.sessionId,
                 index |-> trunc.index, before |-> messages, after |-> messages']
    /\ UNCHANGED besidesMessages

\* getMessages(sessionId) settles after a truncateMessages call has returned
GetMessagesSettles(sessionId) ==
    /\ trunc.step = "done"
    /\ trunc' = [step |-> "got", seq |-> trunc.seq, sessionId |-> trunc.sessionId,
                 index |-> trunc.index, before |-> trunc.before, after |-> trunc.after,
                 from |-> messages, of |-> sessionId,
                 got |-> getMessages(messages, sessionId)]
    /\ UNCHANGED messages
    /\ UNCHANGED besidesMessages

SessionIds == {"s1", "s2"}

\* a store without messages
InitMessages ==
    /\ AgentAtRest
    /\ tools = MemoryTools
    /\ memory = <<>>
    /\ StoreClosed

\* messages are saved to two sessions at any time, also between the SELECT and the
\* DELETE of a truncateMessages call; one truncateMessages call at a time
NextMessages ==
    \/ \E sessionId \in SessionIds : SaveMessageSettles(sessionId)
    \/ \E sessionId \in SessionIds, index \in 0..MaxSaved : TruncateSelects(sessionId, index)
    \/ TruncateDeletes
    \/ \E sessionId \in SessionIds : GetMessagesSettles(sessionId)

SpecMessages == InitMessages /\ [][NextMessages]_vars

(* ------------------------------- claims --------------------------------- *)

\* the ids requested by the assistant message m
CallIds(m) == { m.tool_calls[i].id : i \in 1..Len(m.tool_calls) }

\* history[j] is a tool message answered to the assistant turn at position i < j:
\* the turn requested its id and only tool messages lie between the two
AnswersTurn(h, i, j) ==
    /\ h[i].role = "assistant"
    /\ h[j].tool_call_id \in CallIds(h[i])
    /\ \A k \in (i + 1)..(j - 1) : h[k].role = "tool"

\* C1: in every state reached by sequential process() calls on an agent built with an
\* empty initial history, every tool message of the history is preceded by an
\* assistant message that requested its tool_call_id, with only tool messages of that
\* turn between the two.
C1_ToolFollowsItsTurn ==
    \A j \in 1..Len(history) :
        history[j].role = "tool" => \E i \in 1..(j - 1) : AnswersTurn(history, i, j)

\* C1 witness: a second process() call has returned, and the history holds the result
\* of a malformed call and of a call to an unknown tool
C1_Witness ==
    /\ callNo = 2
    /\ pc = "idle"
    /\ outcome = "returned"
    /\ \E j \in 1..Len(history) :
          history[j].role = "tool" /\ history[j].content = MalformedText("get_weather")
    /\ \E j \in 1..Len(history) :
          history[j].role = "tool" /\ history[j].content = NotFoundText("ghost")

\* the window is there to be looked at
WindowBuilt == pc \in {"windowed", "embed", "search", "chat"}

\* C2: for every history and every window size N >= 1, the windowed history never has
\* a tool message as its first element, nor as its first non-system message.
C2_WindowNeverStartsWithTool ==
    WindowBuilt =>
        LET rest == SelectSeq(optimizedHistory, NotSystem) IN
        /\ Len(optimizedHistory) > 0 => optimizedHistory[1].role # "tool"
        /\ Len(rest) > 0 => rest[1].role # "tool"

\* C2 witness: slice(-N) left a tool message at the head, behind a system message, and
\* something remains after the leading tool messages were dropped
C2_Witness ==
    /\ pc = "windowed"
    /\ LET cut == SliceLast(SelectSeq(history, NotSystem), maxHistory) IN
       /\ Len(cut) > 0
       /\ cut[1].role = "tool"
    /\ Len(optimizedHistory) > 1
    /\ optimizedHistory[1].role = "system"

\* the messages the current process() call has appended after its user message
Appended == SubSeq(history, loopStart + 1, Len(history))

\* the first chat request of the current call was answered without tool calls
FirstTurnFinal ==
    /\ callNo > 0
    /\ Len(history) > loopStart
    /\ history[loopStart + 1].role = "assistant"
    /\ Len(history[loopStart + 1].tool_calls) = 0

\* C3: when the provider answers the first iteration with a turn that has no tool
\* calls, process() has made exactly one chat request, appended exactly one assistant
\* message, executed no tool, and returned that turn's content ("" for a null content).
C3_FinalAnswerOnFirstTurn ==
    FirstTurnFinal =>
        /\ maxIterations >= 1
        /\ pc = "idle"
        /\ outcome = "returned"
        /\ chatRequests = 1
        /\ Len(history) = loopStart + 1
        /\ dispatchedIds = {}
        /\ invokedIds = {}
        /\ returned = OrEmpty(history[loopStart + 1].content)

\* C3 witness: a call that could have iterated again returned a null content as ""
C3_Witness ==
    /\ FirstTurnFinal
    /\ maxIterations = 2
    /\ history[loopStart + 1].content = Null
    /\ returned = ""
    /\ outcome = "returned"

\* how far an in-flight call is from its end: iterations left, then the awaits left in
\* the iteration (embedding, search, chat, one execute per remaining call)
Remaining ==
    IF pc = "idle" THEN 0
    ELSE (maxIterations - iteration) * (MaxToolCallIds + 5)
         + CASE pc = "embed"  -> MaxToolCallIds + 4
             [] pc = "search" -> MaxToolCallIds + 3
             [] pc = "chat"   -> MaxToolCallIds + 2
             [] pc = "exec"   -> Len(toolCalls) - tcIdx + 1

BudgetExhausted ==
    /\ callNo > 0
    /\ pc = "idle"
    /\ outcome = "returned"
    /\ ~(Len(Appended) > 0 /\ Last(history).role = "assistant"
          /\ Len(Last(history).tool_calls) = 0)

\* C5 as claimed: on budget exhaustion process() returns the last textual content the
\* assistant produced during the call, or "" when no turn of the call carried text.
C5_ReturnsLastText == BudgetExhausted => returned = LastText(Appended)


\* C5 amended: on budget exhaustion process() returns the empty string, whatever text
\* the assistant turns of the call carried.
C5_ReturnsEmptyOnExhaustion == BudgetExhausted => returned = ""

\* C5 witness: the budget ran out in a call whose assistant turn carried text
C5_Witness ==
    /\ BudgetExhausted
    /\ maxIterations >= 1
    /\ LastText(Appended) = "answer"


\* the positions of the assistant turns the current call appended
TurnsOfCall == { p \in (loopStart + 1)..Len(history) : history[p].role = "assistant" }

\* the i-th call of the turn at p has been served: its tool message is in the history
Served(p, i) == p + i <= Len(history)

\* the for-loop over the turn at p is still running, suspended in tools.execute on
\* the call right after the tool messages appended so far
ServingTurn(p) ==
    /\ pc = "exec"
    /\ toolCalls = history[p].tool_calls
    /\ tcIdx = Len(history) - p + 1

\* every call of every turn of the current call is served in order, each by a tool
\* message with its id, and the for-loop is never left before the last call
EachCallAnswered ==
    \A p \in TurnsOfCall :
        LET cs == history[p].tool_calls IN
        /\ \A i \in 1..Len(cs) :
              Served(p, i) => /\ history[p + i].role = "tool"
                              /\ history[p + i].tool_call_id = cs[i].id
        /\ (Len(cs) > 0 /\ ~Served(p, Len(cs))) => ServingTurn(p)

CallById(id) ==
    CHOOSE c \in UNION { { history[p].tool_calls[i] : i \in 1..Len(history[p].tool_calls) } :
                         p \in 1..Len(history) } : c.id = id

\* the tool messages the current call appended
ToolMessagesOfCall == { j \in (loopStart + 1)..Len(history) : history[j].role = "tool" }

\* the texts ToolRegistry.execute reports for an executor that raised
RaisedTexts(name) ==
    { ExecErrorText(name, b.message) : b \in { o \in ExecutorOutcomes : o.raises } }

C8_UnknownToolReported ==
    /\ outcome = "threw" => chatFailed
    /\ invokedIds \subseteq dispatchedIds
    /\ \A id \in invokedIds : Registered(tools, CallById(id).name)
    /\ \A j \in ToolMessagesOfCall :
          LET c == CallById(history[j].tool_call_id) IN
          (JSONParses(c.arguments) /\ ~Registered(tools, c.name))
              => /\ history[j].content = NotFoundText(c.name)
                 /\ c.id \in dispatchedIds
                 /\ c.id \notin invokedIds
    /\ (pc = "exec" /\ ~Registered(tools, toolCalls[tcIdx].name))
          => toolCalls[tcIdx].id \in dispatchedIds \ invokedIds

\* C8 witness: a call to an unknown tool was answered and a later call of the same turn
\* was served by the registered tool
C8_Witness ==
    \E p \in TurnsOfCall :
        LET cs == history[p].tool_calls IN
        /\ Len(cs) = 2
        /\ cs[1].name = "ghost"
        /\ Served(p, 2)
        /\ history[p + 1].content = NotFoundText("ghost")
        /\ history[p + 1].tool_call_id = cs[1].id
        /\ cs[2].id \in invokedIds

\* C9: a failed chat request leaves process() as an error and is not retried: the
\* failed request is the last one of the call, every earlier request of the call
\* appended its one assistant message, and nothing was dispatched or appended after
\* the failure.
C9_ChatFailurePropagates ==
    chatFailed =>
        /\ pc = "idle"
        /\ outcome = "threw"
        /\ returned = ""
        /\ chatRequests = iteration
        /\ AssistantTurns(Appended) = chatRequests - 1
        /\ Last(history).role \in {"user", "tool"}
        /\ \A p \in TurnsOfCall : Served(p, Len(history[p].tool_calls))
        /\ dispatchedIds \subseteq
              { history[j].tool_call_id : j \in ToolMessagesOfCall }

\* C9 witness: the chat request of the second iteration failed
C9_Witness ==
    /\ chatFailed
    /\ iteration = 2
    /\ chatRequests = 2
    /\ outcome = "threw"
    /\ Last(history).role = "tool"

\* C10: when the embedding request or the similarity search fails, process() does not
\* fail: the chat request of iteration 1 is made with the unaugmented windowed history.
C10_RetrievalFailureSwallowed ==
    memFailed =>
        /\ pc = "chat"
        /\ outcome = "none"
        /\ iteration = 1
        /\ chatRequests = 1
        /\ optimizedHistory = getOptimizedHistory(history, maxHistory)

\* C10 witness: retrieval failed for an agent with a system prompt, and the chat
\* request is out with the plain prompt
C10_Witness ==
    /\ memFailed
    /\ pc = "chat"
    /\ systemPrompt # Null
    /\ optimizedHistory[1] = SystemMsg(systemPrompt)
    /\ Last(optimizedHistory).role = "user"

\* C11: within one process() call the proactive retrieval (the embedding request, then
\* the similarity search) is attempted only on iteration 1 and before the first chat
\* request: it is started only by the entry of process(), so at most once per call,
\* the search only follows the embedding request, and neither is ever in flight on
\* iteration 2 or later.
C11_RetrievalOnlyOnFirstIteration ==
    /\ [](pc \in {"embed", "search"} => iteration = 1 /\ chatRequests = 0)
    /\ [][/\ pc' = "embed" => pc = "idle"
          /\ pc' = "search" => pc = "embed"]_vars

\* C11 witness: a call that attempted the retrieval on its textual user message is on
\* iteration 2, with its second chat request out
C11_Witness ==
    /\ pc = "chat"
    /\ iteration = 2
    /\ chatRequests = 2
    /\ loopStart > 0
    /\ history[loopStart].role = "user"
    /\ IsText(history[loopStart].content)
    /\ Last(history).role = "tool"
    /\ IsText(Last(history).content)

\* C12: memory injection changes only the copy of the system message sent on
\* iteration 1: every system message stored in the history keeps exactly the
\* configured prompt, the context of a chat request differs from the windowed history
\* at most in its leading system message and only on iteration 1, and on iterations 2
\* and later it carries the unaugmented prompt.
C12_InjectionOnlyInCopy ==
    /\ \A i \in 1..Len(history) :
          history[i].role = "system" => /\ i = 1
                                        /\ history[i] = SystemMsg(systemPrompt)
    /\ pc = "chat" =>
          LET plain == getOptimizedHistory(history, maxHistory) IN
          /\ Len(optimizedHistory) = Len(plain)
          /\ \A i \in 2..Len(plain) : optimizedHistory[i] = plain[i]
          /\ (Len(plain) > 0 /\ optimizedHistory[1] # plain[1])
                => iteration = 1 /\ plain[1].role = "system"
          /\ iteration >= 2 => optimizedHistory = plain

\* C12 witness: the chat request of iteration 1 is out with memories injected into the
\* copy of the system message, and the stored system message is the configured prompt
C12_Witness ==
    /\ pc = "chat"
    /\ iteration = 1
    /\ systemPrompt # Null
    /\ optimizedHistory[1].content =
          systemPrompt \o memorySnippet(<<[key |-> "user_name", content |-> "Alex"]>>)
    /\ history[1] = SystemMsg(systemPrompt)

\* a step that is the entry of a process() call
ProcessEntered == pc = "idle" /\ callNo' = callNo + 1

\* C13: process(userInput) appends exactly one new user message and hands it to the
\* onMessage observer, unless the last history entry is a user message whose content
\* equals userInput: then nothing is appended and nothing is notified, the loop starts
\* with the history length unchanged, and the only change is that the supplied images
\* are attached to that last message if it has none.
C13_DedupGuard ==
    [][ProcessEntered =>
          IF IsContinuation(history, userInput')
          THEN /\ Len(history') = Len(history)
               /\ loopStart' = Len(history)
               /\ onMessage' = <<>>
               /\ \A i \in 1..(Len(history) - 1) : history'[i] = history[i]
               /\ Last(history') =
                     IF Len(images') > 0 /\ Len(Last(history).images) = 0
                     THEN [Last(history) EXCEPT !.images = images']
                     ELSE Last(history)
          ELSE /\ history' = Append(history, Msg("user", userInput', <<>>, 0, images'))
               /\ loopStart' = Len(history) + 1
               /\ onMessage' = <<Last(history')>>]_vars

\* C13 witness: a second call with the same text and with images was taken as a
\* continuation: nothing was notified and the images are on the pending user message
C13_Witness ==
    /\ callNo = 2
    /\ iteration <= 1
    /\ pc \in {"idle", "embed"}
    /\ outcome = "none" \/ finalContent = ""
    /\ onMessage = <<>>
    /\ Len(images) > 0
    /\ loopStart = Len(history)
    /\ Last(history) = Msg("user", userInput, <<>>, 0, images)

\* the ids of the calls the current process() call has answered with a tool message
AnsweredIds == { history[j].tool_call_id : j \in ToolMessagesOfCall }

\* C14: the tool calls of a turn are dispatched one at a time in the order returned:
\* while an executor is in flight it is the only call handed to the registry and not
\* yet answered, every earlier call of the turn has its tool message, and so a
\* save_memory directly followed by get_memory for the same key in one turn is
\* answered with the saved content (or with the error of a failed statement).
C14_SequentialDispatch ==
    /\ EachCallAnswered
    /\ dispatchedIds \ AnsweredIds =
          IF pc = "exec" THEN {toolCalls[tcIdx].id} ELSE {}
    /\ \A p \in TurnsOfCall :
          LET cs == history[p].tool_calls IN
          \A i \in 1..(Len(cs) - 1) :
              LET a == JSONParse[cs[i].arguments]
                  b == JSONParse[cs[i + 1].arguments] IN
              (/\ cs[i].name = "save_memory"
               /\ cs[i + 1].name = "get_memory"
               /\ a.key = b.key
               /\ Served(p, i + 1)
               /\ history[p + i].content =
                     "Memory saved successfully: [" \o a.key \o "] " \o a.content)
                 => history[p + i + 1].content \in
                       { "Memory found for " \o a.key \o ": " \o a.content }
                       \cup { "Error retrieving memory: " \o st.message :
                                st \in StatementOutcomes }

\* C14 witness: one turn saved c2 under a key that held c0 and then read the key: the
\* read was answered with c2
C14_Witness ==
    \E p \in TurnsOfCall :
        LET cs == history[p].tool_calls IN
        /\ Len(cs) = 2
        /\ cs[1].name = "save_memory"
        /\ cs[1].arguments = SaveArgs2
        /\ cs[2].name = "get_memory"
        /\ cs[2].arguments = KeyArgs
        /\ Served(p, 2)
        /\ history[p + 2].content = "Memory found for k1: c2"
        /\ memory = <<[key |-> "k1", content |-> "c2", embedding |-> Null]>>

\* the results ToolRegistry.execute can hand back for a call
PossibleResults(call) == { execute(tools, call.name, b) : b \in ToolOutcomes }

ImagesAttached ==
    /\ ProcessEntered
    /\ IsContinuation(history, userInput')
    /\ Len(Last(history).images) = 0
    /\ history' = [history EXCEPT ![Len(history)].images = images']

\* C16: process() only appends to the history: every step of a call leaves the
\* messages already there in place and in order (so the history at the start of the
\* call is a prefix of the history at every later point), the one exception being the
\* dedup guard attaching images to the trailing user message that has none.
C16_AppendOnly ==
    [][\/ /\ Len(history') >= Len(history)
          /\ SubSeq(history', 1, Len(history)) = history
       \/ ImagesAttached]_vars

\* C16 witness: the first call attached its images to the user message the initial
\* history ended with (it notified no user message), then appended an assistant turn
\* and a tool message behind it
C16_Witness ==
    /\ callNo = 1
    /\ images = <<"img2">>
    /\ Len(onMessage) > 0
    /\ onMessage[1].role = "assistant"
    /\ history[loopStart] = Msg("user", userInput, <<>>, 0, images)
    /\ Len(history) >= loopStart + 2
    /\ Last(history).role = "tool"

\* C17: when a second process() call is issued while a first one is in flight, the
\* shared history is not corrupted: the messages of the two calls are not interleaved
\* (the messages a call pushed lie together), and every tool message directly follows
\* its own assistant turn or a sibling tool result of that turn.
C17_ConcurrentCallsKeepHistory ==
    /\ \A i, j, k \in 1..Len(history) :
          (i < j /\ j < k /\ owner[i] # 0 /\ owner[i] = owner[k]) => owner[j] = owner[i]
    /\ \A j \in 1..Len(history) :
          history[j].role = "tool" =>
              /\ j > 1
              /\ \/ /\ history[j - 1].role = "assistant"
                    /\ history[j].tool_call_id \in CallIds(history[j - 1])
                 \/ /\ history[j - 1].role = "tool"
                    /\ \E i \in 1..(j - 1) : AnswersTurn(history, i, j)

\* the init() calls that have been made
Called == { c \in 1..MaxInitCalls : callers[c] # NotCalled }

\* C18: no init() call completes while the store is half-initialized: whenever an
\* init() call has returned successfully, at that moment the database was open and
\* the whole schema setup (tables and column migrations) had finished.
C18_InitReturnsWhenComplete ==
    \A c \in Called : callers[c].pc = "returned" => callers[c].complete

\* the step is an init() call made after the setup has ended without failure
LaterInit(c) ==
    /\ failures = 0
    /\ setup.step = "done"
    /\ callers[c] = NotCalled
    /\ callers'[c] # NotCalled

\* C19: with no failure, however many init() calls are made and however they overlap,
\* the database is opened once and the schema setup is run once (one promise, one
\* execution of the CREATE TABLE statements, each column added by one ALTER), every
\* call that returns finds the setup ended exactly once, and an init() made after the
\* end is a no-op that returns at once.
C19_SetupRunsOnce ==
    /\ [](failures = 0 =>
            /\ opens <= 1 /\ creates <= 1 /\ Len(promises) <= 1
            /\ Called # {} => opens = 1
            /\ setup.step = "done" =>
                  /\ opens = 1 /\ creates = 1
                  /\ db = "open"
                  /\ schema = FullSchema)
    /\ [][failures = 0 /\ setup.step = "alter" => MigratedColumns[setup.col] \notin schema]_vars
    /\ [][\A c \in 1..MaxInitCalls :
            LaterInit(c) =>
                /\ callers'[c].pc = "returned"
                /\ UNCHANGED <<db, initPromise, promises, setup, schema, opens, creates>>]_vars

\* C19 witness: two calls overlapped on a database of an older version and waited for
\* the one setup, a third call came after its end; all returned, nothing ran twice
C19_Witness ==
    /\ failures = 0
    /\ setup.step = "done"
    /\ opens = 1
    /\ creates = 1
    /\ schema = FullSchema
    /\ memTableInfo = {}
    /\ \A c \in 1..MaxInitCalls : callers[c].pc = "returned"
    /\ Cardinality({ c \in 1..MaxInitCalls : callers[c].promise = 1 }) >= 2
    /\ \E c \in 1..MaxInitCalls : callers[c].promise = 0 /\ callers[c].complete

\* the step is an init() call made after a setup that failed, with none running
InitAfterFailure(c) ==
    /\ setup.step = "failed"
    /\ callers[c] = NotCalled
    /\ callers'[c] # NotCalled

\* C20: if the initialization fails at any step (opening, creating the tables, a
\* migration), the store is not taken as ready afterwards: the init() calls that
\* waited for the failed setup raise, and an init() call made after the failure runs
\* the setup again instead of returning at once.
C20_FailedInitIsRetried ==
    /\ [](\A c \in Called :
            (callers[c].promise # 0 /\ promises[callers[c].promise] = "rejected")
                => callers[c].pc \in {"awaiting", "raised"})
    /\ [][\A c \in 1..MaxInitCalls :
            InitAfterFailure(c) =>
                /\ callers'[c].pc = "awaiting"
                /\ setup'.step \in {"open", "create", "info", "alter"}]_vars

\* the rows of table memory before the j-th run of an executor
RowsBefore(j) == IF j = 1 THEN <<>> ELSE ops[j - 1].rows

\* the j-th run is a save that went through
SavedAt(j) == ops[j].name = "save_memory" /\ ~ops[j].error

\* the rows of other keys than key, in their order
OtherKeys(rows, key) == LET Others(r) == r.key # key IN SelectSeq(rows, Others)

\* C21: after save_memory(k, c1) followed by save_memory(k, c2), the memory store holds
\* exactly one record with key k, whose content and embedding are those of the second
\* save; records under other keys are unchanged. Stated of every save that went
\* through, whatever ran before it: the table it leaves has exactly one row under its
\* key, with its content and embedding, and the rows of the other keys as they were.
C21_UpsertKeepsOneRecord ==
    /\ Len(ops) > 0 => memory = Last(ops).rows
    /\ \A j \in 1..Len(ops) :
          SavedAt(j) =>
              LET k == ops[j].key
                  found == WhereKey(ops[j].rows, k) IN
              /\ Len(found) = 1
              /\ found[1].content = ops[j].content
              /\ found[1].embedding = ops[j].embedding
              /\ OtherKeys(ops[j].rows, k) = OtherKeys(RowsBefore(j), k)

\* C21 witness: k1 was saved with c1 and no provider, then with c2 and a provider, with
\* a record under k2 in the table: one row under k1 holds c2 and the second embedding
C21_Witness ==
    /\ Len(ops) = 3
    /\ SavedAt(1) /\ ops[1].key = "k2"
    /\ SavedAt(2) /\ ops[2].key = "k1" /\ ops[2].content = "c1" /\ ops[2].embedding = Null
    /\ SavedAt(3) /\ ops[3].key = "k1" /\ ops[3].content = "c2"
    /\ ops[3].embedding = "[0,1]"
    /\ Len(memory) = 2
    /\ memory[2] = [key |-> "k1", content |-> "c2", embedding |-> "[0,1]"]

\* the writes of key that went through before the j-th run
WritesBefore(j, key) ==
    { i \in 1..(j - 1) : /\ ops[i].name \in {"save_memory", "delete_memory"}
                         /\ ops[i].key = key
                         /\ ~ops[i].error }

\* the last of a non-empty set of positions
Latest(S) == CHOOSE i \in S : \A j \in S : j <= i

\* the j-th run is a get_memory of a key whose statement did not fail
GotAt(j) == ops[j].name = "get_memory" /\ ops[j].key # Null /\ ops[j].forLLM \notin
               { "Error retrieving memory: " \o st.message : st \in StatementOutcomes }

\* C22: for any sequence of save_memory and delete_memory operations, get_memory(k)
\* reports the content of the most recent save of k when no delete of k followed it,
\* and otherwise returns a 'no memory found' result (a normal tool result, not an
\* error).
C22_GetReportsLatestSave ==
    \A j \in 1..Len(ops) :
        GotAt(j) =>
            LET k == ops[j].key
                w == WritesBefore(j, k) IN
            IF w # {} /\ ops[Latest(w)].name = "save_memory"
            THEN /\ ops[j].forLLM = "Memory found for " \o k \o ": " \o ops[Latest(w)].content
                 /\ ~ops[j].error
            ELSE /\ ops[j].forLLM = "No memory found for key: " \o k
                 /\ ~ops[j].error

\* C22 witness: k1 was saved, then deleted, then read: no memory found, not an error
C22_Witness ==
    /\ Len(ops) = 3
    /\ SavedAt(1) /\ ops[1].key = "k1"
    /\ ops[2].name = "delete_memory" /\ ops[2].key = "k1" /\ ~ops[2].error
    /\ GotAt(3) /\ ops[3].key = "k1"
    /\ ops[3].forLLM = "No memory found for key: k1"
    /\ ~ops[3].error

\* a search has returned a result list
Returned == search.kind # "none" /\ ~search.failed

\* the rows of the table searched that the search is to rank
CandidateRows ==
    IF search.kind = "messages"
    THEN { i \in 1..Len(messages) : /\ messages[i].embedding # Null
                                    /\ messages[i].role \in {"user", "assistant"} }
    ELSE { i \in 1..Len(memory) : memory[i].embedding # Null }

\* C23: every result list returned by searchSemantic(query, K) or
\* searchSemanticMemory(query, K) has similarity scores that are non-increasing by
\* position, and contains at most K records and at most as many records as there are
\* candidates.
C23_RankedTopK ==
    Returned =>
        LET results == search.results IN
        /\ \A i \in 1..(Len(results) - 1) :
              /\ ~results[i].similarity.nan
              /\ ~results[i + 1].similarity.nan
              /\ AtLeast(results[i].similarity, results[i + 1].similarity)
        /\ Len(results) <= search.limit
        /\ Len(results) <= Cardinality(CandidateRows)

\* the memory fact at row i has the query's embedding, and every other candidate has a
\* strictly lower cosine similarity
IdenticalAndAbove(i) ==
    /\ memory[i].embedding # Null
    /\ JSONParseVector(memory[i].embedding) = search.queryEmbedding
    /\ \A j \in 1..Len(memory) :
          (j # i /\ memory[j].embedding # Null) =>
              LET own == cosineSimilarity(search.queryEmbedding,
                                          JSONParseVector(memory[i].embedding))
                  its == cosineSimilarity(search.queryEmbedding,
                                          JSONParseVector(memory[j].embedding)) IN
              ~own.nan /\ ~its.nan /\ Above(own, its)

\* C25: if a stored memory fact's embedding is identical to the query embedding and
\* every other candidate has strictly lower cosine similarity, searchSemanticMemory
\* returns that fact at position 0 with similarity 1. Stated for a limit of at least 1.
C25_IdenticalRanksFirst ==
    (Returned /\ search.kind = "memory" /\ search.limit >= 1) =>
        \A i \in 1..Len(memory) :
            IdenticalAndAbove(i) =>
                /\ Len(search.results) >= 1
                /\ search.results[1].row = memory[i]
                /\ IsOne(search.results[1].similarity)

\* C26: for all pairs of vectors of equal dimension (including a zero vector),
\* cosineSimilarity returns a value in [-1, 1], and the similarity of a vector with
\* itself is 1. Stated of the similarities a search attached to its results.
C26_CosineInUnitRange ==
    Returned =>
        \A i \in 1..Len(search.results) :
            LET vecB == JSONParseVector(search.results[i].row.embedding)
                similarity == search.results[i].similarity IN
            Len(vecB) = Len(search.queryEmbedding) =>
                /\ ~similarity.nan
                /\ InUnitRange(similarity)
                /\ vecB = search.queryEmbedding => IsOne(similarity)

\* a candidate of the search made has an embedding of another length than the query
LengthsDiffer ==
    /\ search.kind # "none"
    /\ \E i \in CandidateRows :
          LET row == IF search.kind = "messages" THEN messages[i] ELSE memory[i] IN
          Len(JSONParseVector(row.embedding)) # Len(search.queryEmbedding)

\* C27: when the query embedding and a candidate's stored embedding differ in length,
\* similarity search fails with an error instead of returning a ranked result computed
\* from the mismatched vectors.
C27_MismatchFailsFast == LengthsDiffer => search.failed

\* the facts of table memory that carry an embedding
EmbeddedFacts == { i \in 1..Len(memory) : memory[i].embedding # Null }

\* the lists of distinct embedded facts, of one fact or more
EmbeddedSelections ==
    UNION { { [i \in 1..n |-> memory[sel[i]]] :
                sel \in { f \in [1..n -> EmbeddedFacts] :
                            \A a, b \in 1..n : a # b => f[a] # f[b] } } :
            n \in 1..Cardinality(EmbeddedFacts) }

\* C24: similarity search only ever returns records that were stored with a non-null
\* embedding, and message search returns only messages with role user or assistant;
\* in particular a memory fact saved without an embedding (save_memory built without
\* an embedding provider) is never returned by searchSemanticMemory and so never
\* injected by proactive retrieval: the system message of the first chat request of a
\* call is the prompt alone or the prompt followed by facts that carry an embedding.
C24_OnlyEmbeddedRecordsReturned ==
    /\ Returned =>
          \A i \in 1..Len(search.results) :
              LET row == search.results[i].row IN
              /\ row.embedding # Null
              /\ search.kind = "messages" =>
                    /\ row.role \in {"user", "assistant"}
                    /\ \E j \in 1..Len(messages) : messages[j] = row
    /\ (pc = "chat" /\ iteration = 1 /\ Len(optimizedHistory) > 0
          /\ optimizedHistory[1].role = "system") =>
          optimizedHistory[1].content \in
              {systemPrompt}
              \cup { systemPrompt \o memorySnippet(ms) : ms \in EmbeddedSelections }

\* C24 witness: a message search returned records while the table held an embedded
\* tool message; an earlier call of process() saved a fact without an embedding, and
\* the first chat request of the second call carries the embedded fact alone
C24_Witness ==
    /\ Returned
    /\ search.kind = "messages"
    /\ Len(search.results) > 0
    /\ \E j \in 1..Len(messages) :
          messages[j].role = "tool" /\ messages[j].embedding # Null
    /\ callNo = 2
    /\ pc = "chat"
    /\ iteration = 1
    /\ \E i \in 1..Len(memory) : memory[i].embedding = Null
    /\ optimizedHistory[1].content = systemPrompt \o memorySnippet(<<EmbeddedFact>>)

\* the windowed history without the system message it starts with
WindowedOthers ==
    IF \E i \in 1..Len(history) : history[i].role = "system"
    THEN Tail(optimizedHistory)
    ELSE optimizedHistory

\* C28: getOptimizedHistory() returns the system message (if the history has one)
\* first, followed by a contiguous suffix of the non-system messages in their original
\* order, of length at most N (the configured maxHistory, 20 when it is not set);
\* nothing outside the most recent N non-system messages is included.
C28_SystemThenRecentSuffix ==
    pc = "windowed" =>
        LET sys == SelectSeq(history, IsSystem)
            others == SelectSeq(history, NotSystem)
            kept == Len(WindowedOthers)
        IN  /\ Len(sys) > 0 =>
                  /\ Len(optimizedHistory) > 0
                  /\ optimizedHistory[1] = sys[1]
            /\ kept <= maxHistory
            /\ kept <= Len(others)
            /\ WindowedOthers = SubSeq(others, Len(others) - kept + 1, Len(others))

\* C28 witness: the history holds a system message behind other messages and more
\* non-system messages than the window takes, the oldest of them unlike the rest;
\* the window is full
C28_Witness ==
    /\ pc = "windowed"
    /\ Len(history) > 0
    /\ history[1].role # "system"
    /\ \E i \in 1..Len(history) : history[i].role = "system"
    /\ LET others == SelectSeq(history, NotSystem) IN
       /\ Len(others) > maxHistory
       /\ others[1] # others[Len(others)]
    /\ Len(WindowedOthers) = maxHistory

\* the most recent DefaultMaxHistory messages of the history
MostRecent == SubSeq(history, Len(history) - DefaultMaxHistory + 1, Len(history))

\* the tool messages at the head of the most recent DefaultMaxHistory messages
LeadingTools ==
    Cardinality({ i \in 1..DefaultMaxHistory :
                    \A j \in 1..i : MostRecent[j].role = "tool" })

\* the window was taken of a history of n messages without a system message
WindowedOf(n) ==
    /\ pc = "windowed"
    /\ Len(history) = n
    /\ \A i \in 1..Len(history) : history[i].role # "system"
    /\ maxHistory = DefaultMaxHistory

\* C29 as stated: for any history of 25 messages with no system prompt and a window of
\* 20, the windowed result has exactly 20 messages, namely the most recent 20 in
\* original order, and does not start with a tool message.
C29_ExactlyTwentyMostRecent ==
    WindowedOf(DefaultMaxHistory + MaxOlder) =>
        /\ Len(optimizedHistory) = DefaultMaxHistory
        /\ optimizedHistory = MostRecent
        /\ optimizedHistory[1].role # "tool"

\* C29 amended: for any history of 20 messages or more with no system prompt and a
\* window of 20, the windowed result is the most recent 20 messages in original order
\* less the tool messages at their head: it has exactly 20 messages when the oldest of
\* the most recent 20 is not a tool message and fewer otherwise, and it never starts
\* with a tool message.
C29_MostRecentLessLeadingTools ==
    \A n \in DefaultMaxHistory..(DefaultMaxHistory + MaxOlder) :
        WindowedOf(n) =>
            /\ Len(optimizedHistory) = DefaultMaxHistory - LeadingTools
            /\ optimizedHistory = SubSeq(MostRecent, LeadingTools + 1, DefaultMaxHistory)
            /\ Len(optimizedHistory) > 0 => optimizedHistory[1].role # "tool"
            /\ (Len(optimizedHistory) = DefaultMaxHistory) <=> (MostRecent[1].role # "tool")

\* C29 witness: a history of 25 messages whose sixth message answers the tool call of
\* the fifth; the window starts behind it, with 19 messages
C29_Witness ==
    /\ WindowedOf(DefaultMaxHistory + MaxOlder)
    /\ history[MaxOlder].role = "assistant"
    /\ history[MaxOlder].tool_calls # <<>>
    /\ history[MaxOlder + 1].role = "tool"
    /\ history[MaxOlder + 2].role = "user"
    /\ Len(optimizedHistory) = DefaultMaxHistory - 1
    /\ optimizedHistory[1] = history[MaxOlder + 2]

\* the messages a step appends to the history
NewlyAppended == SubSeq(history', Len(history) + 1, Len(history'))

\* the messages a step hands to the onMessage observer
NewlyNotified ==
    IF ProcessEntered
    THEN onMessage'
    ELSE SubSeq(onMessage', Len(onMessage) + 1, Len(onMessage'))

\* C30: every message that process() appends to the history (the user message, each
\* assistant message, and each tool message, including the synthesized
\* malformed-arguments result) is delivered to the onMessage observer exactly once,
\* in the order of appending: in every step the messages handed to the observer are
\* the messages appended.
C30_EveryAppendedMessageNotified ==
    [][NewlyNotified = NewlyAppended]_vars

\* the non-system messages of the context of the pending chat request
ContextOthers == SelectSeq(optimizedHistory, NotSystem)

\* the messages of the history from the user message of the current call on
SinceUserMessage == Len(history) - loopStart + 1

\* C37: on every chat request made during a process() call, the windowed context
\* passed to the provider contains the user message of that call, for every window
\* size N >= 1 and every number of iterations and tool calls: the context, a suffix of
\* the non-system messages, reaches back to the user message.
C37_ContextHoldsUserMessage ==
    pc = "chat" =>
        /\ Len(ContextOthers) >= SinceUserMessage
        /\ ContextOthers[Len(ContextOthers) - SinceUserMessage + 1] = history[loopStart]

\* the context holds the assistant turn at position i with all its answers: one tool
\* message per requested call, in call order, with the ids of the calls, and no tool
\* message behind them
AnsweredInContext(i) ==
    LET calls == optimizedHistory[i].tool_calls
        k == Len(calls)
    IN  /\ i + k <= Len(optimizedHistory)
        /\ \A j \in 1..k :
              /\ optimizedHistory[i + j].role = "tool"
              /\ optimizedHistory[i + j].tool_call_id = calls[j].id
        /\ i + k < Len(optimizedHistory) => optimizedHistory[i + k + 1].role # "tool"

ReturnedNormally == pc = "idle" /\ outcome = "returned" /\ maxIterations >= 1

\* C39: after any process() call that returns normally with maxIterations >= 1, the
\* last history message is either an assistant message without tool calls (success)
\* or a tool message (budget exhausted), never a user message; hence an immediately
\* following process() call with the same text is not swallowed by the dedup guard
\* and appends a new user turn.
C39_ReturnLeavesNoPendingUserTurn ==
    /\ [](ReturnedNormally =>
            /\ Len(history) > 0
            /\ \/ Last(history).role = "assistant" /\ Len(Last(history).tool_calls) = 0
               \/ Last(history).role = "tool"
            /\ (Last(history).role = "tool") <=> (iteration = maxIterations /\ allToolTurns))
    /\ [][(ReturnedNormally /\ ProcessEntered) =>
            /\ Len(history') = Len(history) + 1
            /\ history'[Len(history) + 1] = Msg("user", userInput', <<>>, 0, images')]_vars

\* C39 witness: a call returned on an exhausted budget with a tool message last, and
\* the next call, with the same text, has appended its own user turn
C39_Witness ==
    /\ callNo = 2
    /\ loopStart >= 4
    /\ history[loopStart] = Msg("user", userInput, <<>>, 0, <<>>)
    /\ history[loopStart - 1].role = "tool"
    /\ \E i \in 1..(loopStart - 2) : history[i] = history[loopStart]

\* the history holds no system message
NoSystemMessage == \A i \in 1..Len(history) : history[i].role # "system"

\* C40: when the Agent has no system message in its history (no system prompt
\* configured), memories found by proactive retrieval are not injected anywhere: the
\* embedding request and the search are still performed (a call with a text goes to
\* the embedding request, and from there to the search), but the context sent to the
\* chat provider on iteration 1 equals the plain windowed history.
C40_NoInjectionWithoutSystemMessage ==
    /\ []((pc = "chat" /\ iteration = 1 /\ NoSystemMessage) =>
            /\ systemPrompt = Null
            /\ optimizedHistory = Truncated(history, maxHistory))
    /\ [][(ProcessEntered /\ NoSystemMessage /\ maxIterations >= 1 /\ IsText(userInput'))
            => pc' = "embed"]_vars
    /\ [][(pc = "search" /\ pc' = "chat" /\ NoSystemMessage)
            => optimizedHistory' = optimizedHistory]_vars

\* C40 witness: an agent without a system prompt has made the search of its retrieval
\* and the first chat request is out with the windowed history, user message included
C40_Witness ==
    /\ pc = "chat"
    /\ iteration = 1
    /\ ~memFailed
    /\ NoSystemMessage
    /\ systemPrompt = Null
    /\ Len(optimizedHistory) > 0
    /\ Last(optimizedHistory) = Msg("user", "hi", <<>>, 0, <<>>)

\* the last call of process() ended on the failure of its first chat request
FailedFirstChat ==
    pc = "idle" /\ outcome = "threw" /\ chatFailed /\ iteration = 1

\* the current call is the retry of a call that failed: the user message it works on
\* was pushed by the call before it
IsRetry ==
    /\ callId >= 2
    /\ maxIterations >= 1
    /\ loopStart > 0
    /\ owner[loopStart] = callId - 1

\* the user messages that the failed call and its retry have pushed
UserTurnsOfRetry ==
    { i \in 1..Len(history) :
        owner[i] \in {callId - 1, callId} /\ history[i].role = "user" }

\* C36: if the chat request fails on the first iteration of process(text), the
\* appended user message stays in the history (no rollback), and a retry
\* process(text) with the same text does not append a second user message: after the
\* retry succeeds the history holds that user turn exactly once, followed by the
\* assistant turn.
C36_RetryAfterChatFailure ==
    /\ [](FailedFirstChat =>
            /\ Len(history) = loopStart
            /\ Last(history).role = "user"
            /\ Last(history).content = userInput)
    /\ [][(FailedFirstChat /\ ProcessEntered /\ userInput' = userInput) =>
            /\ Len(history') = Len(history)
            /\ Last(history').content = userInput
            /\ onMessage' = <<>>]_vars
    /\ []((IsRetry /\ pc = "idle" /\ outcome = "returned") =>
            /\ UserTurnsOfRetry = {loopStart}
            /\ history[loopStart].content = userInput
            /\ Len(history) > loopStart
            /\ history[loopStart + 1].role = "assistant"
            /\ owner[loopStart + 1] = callId)

\* C36 witness: the first call pushed its user message and failed on its first chat
\* request; the retry with the same text has returned the answer, and the history
\* ends with that one user message and the assistant turn
C36_Witness ==
    /\ IsRetry
    /\ pc = "idle"
    /\ outcome = "returned"
    /\ returned = "answer"
    /\ Len(history) = loopStart + 1
    /\ history[loopStart] = Msg("user", "hi", <<>>, 0, <<>>)
    /\ Last(history) = assistantMessage("answer", <<>>)

\* the positions of the system messages of the history
SystemPositions == { i \in 1..Len(history) : history[i].role = "system" }

\* C32: in every state reachable through the constructor (with any initial history),
\* process() and clearHistory(), the Agent history contains at most one system message
\* and it is at index 0; when a system prompt is configured and the initial history
\* already contains a system message, the stored system message is the configured
\* prompt and the prior one is dropped, not duplicated.
C32_OneSystemMessageAtFront ==
    /\ Cardinality(SystemPositions) <= 1
    /\ SystemPositions \subseteq {1}
    /\ IsText(systemPrompt) =>
          /\ SystemPositions = {1}
          /\ history[1] = SystemMsg(systemPrompt)
    /\ \A i \in 1..Len(dropped) : \A j \in 1..Len(history) : history[j] # dropped[i]

\* C32 witness: the agent was built with a prompt on an initial history that held two
\* system messages around a user message; a call has returned, and the history is the
\* prompt, the user message kept, and the turn of the call
C32_Witness ==
    /\ IsText(systemPrompt)
    /\ Len(dropped) = 2
    /\ pc = "idle"
    /\ outcome = "returned"
    /\ history = << SystemMsg(systemPrompt),
                    Msg("user", "hello", <<>>, 0, <<>>),
                    Msg("user", "hi", <<>>, 0, <<>>),
                    assistantMessage("answer", <<>>) >>

\* the register() calls made for this name among the first n
RegistrationsOf(name, n) == { i \in 1..n : registrations[i].name = name }

\* the greatest and the least element of a non-empty set of positions
Greatest(S) == CHOOSE i \in S : \A j \in S : j <= i
Least(S) == CHOOSE i \in S : \A j \in S : i <= j

\* the names registered so far
RegisteredNames == { registrations[i].name : i \in 1..Len(registrations) }

\* C33: after any sequence of register() calls, execute(name, args) invokes the
\* executor of the most recent registration for that name (and none for a name never
\* registered), the catalog holds exactly one definition for that name (the latest
\* one), and registering an already registered name never raises an error: the
\* registration takes effect.
C33_LastRegistrationWins ==
    /\ \A name \in RegisteredNames :
          LET latest == registrations[Greatest(RegistrationsOf(name, Len(registrations)))]
              held == { i \in 1..Len(tools) : tools[i].name = name }
          IN  /\ Cardinality(held) = 1
              /\ \A i \in held : tools[i] = latest
              /\ Cardinality({ i \in 1..Len(tools) :
                                 getAllDefinitions(tools)[i].name = name }) = 1
              /\ \A i \in held : getAllDefinitions(tools)[i] = latest.definition
    /\ \A i \in 1..Len(tools) : tools[i].name \in RegisteredNames
    /\ executed # NoExecution =>
          LET made == RegistrationsOf(executed.name, executed.after) IN
          IF made = {}
          THEN /\ executed.ran = Null
               /\ ~executed.result.invoked
          ELSE /\ executed.ran = registrations[Greatest(made)].execute
               /\ executed.result.invoked

\* C33 witness: get_weather was registered, get_time was registered, get_weather was
\* registered again with another definition and executor, and execute("get_weather")
\* then ran the executor of the second registration
C33_Witness ==
    /\ Len(registrations) = 3
    /\ registrations[1].name = "get_weather"
    /\ registrations[2].name = "get_time"
    /\ registrations[3].name = "get_weather"
    /\ registrations[3].execute # registrations[1].execute
    /\ executed # NoExecution
    /\ executed.name = "get_weather"
    /\ executed.after = 3
    /\ executed.ran = registrations[3].execute
    /\ Len(tools) = 2

\* the positions of the register() calls that brought a new name
FirstRegistrations ==
    { i \in 1..Len(registrations) :
        \A j \in 1..(i - 1) : registrations[j].name # registrations[i].name }

\* the place of a name in the catalog: how many names were registered up to its first
\* registration
PlaceOf(i) == Cardinality({ j \in FirstRegistrations : j <= i })

\* a step within an iteration of a call of process()
WithinIteration ==
    pc # "idle" /\ pc' # "idle" /\ callNo' = callNo /\ iteration' = iteration

\* a step that enters an iteration of a call of process()
IterationEntered ==
    /\ pc' \in {"embed", "chat"}
    /\ ProcessEntered \/ (callNo' = callNo /\ iteration' = iteration + 1)

\* C34: getAllDefinitions() returns the tool catalog in registration order, for any
\* sequence of register() calls, including re-registration of an existing name: the
\* names stand in the order in which they were first registered, each with the
\* definition of its latest registration; and this list is what process() hands to
\* the chat provider on every iteration: toolDefs is read from the registry when the
\* iteration is entered and is the list the chat request of the iteration carries.
C34_CatalogInRegistrationOrder ==
    /\ [](/\ Len(getAllDefinitions(tools)) = Cardinality(FirstRegistrations)
          /\ \A i \in FirstRegistrations :
                getAllDefinitions(tools)[PlaceOf(i)] =
                   registrations[Greatest(RegistrationsOf(registrations[i].name,
                                                          Len(registrations)))].definition)
    /\ [][IterationEntered => toolDefs' = getAllDefinitions(tools)]_vars
    /\ [][WithinIteration => toolDefs' = toolDefs]_vars

\* C34 witness: get_weather, get_time and get_weather again were registered, and the
\* chat request of the second iteration carries the catalog: the second definition of
\* get_weather, then get_time
C34_Witness ==
    /\ pc = "chat"
    /\ iteration = 2
    /\ Len(registrations) = 3
    /\ toolDefs = << Definition("get_weather", "second"), Definition("get_time", "first") >>
    /\ registrations[1].definition = Definition("get_weather", "first")
    /\ registrations[2].definition = Definition("get_time", "first")


(* ------------------------------- C35 ----------------------------------- *)

\* the 0-based position of a row among the rows of its session, in append order
AppendPosition(rows, r) ==
    LET at == CHOOSE k \in 1..Len(rows) : rows[k] = r IN
    Cardinality({j \in 1..(at - 1) : rows[j].session_id = r.session_id})

\* the table without the rows of a session at the positions from an index on
WithoutFrom(rows, sessionId, index) ==
    LET Stays(r) == ~(r.session_id = sessionId /\ AppendPosition(rows, r) >= index)
    IN  SelectSeq(rows, Stays)

\* the first messages of a session, in append order
FirstMessages(rows, sessionId, count) ==
    LET own == OfSession(rows, sessionId)
        kept == IF count < Len(own) THEN count ELSE Len(own)
    IN  [k \in 1..kept |-> [role |-> own[k].role, content |-> own[k].content]]

\* C35: a truncateMessages(sessionId, i) call that has returned has deleted exactly
\* the rows of the session at the 0-based positions >= i in append order, the rows of
\* other sessions are as they were, nothing is deleted when i is at least the count of
\* the session's messages, and a getMessages(sessionId) that follows at once returns
\* the first i messages of the session in their original order.
C35_TruncateDeletesFromIndex ==
    trunc.step \in {"done", "got"} =>
        /\ trunc.after = WithoutFrom(trunc.before, trunc.sessionId, trunc.index)
        /\ \A sessionId \in SessionIds \ {trunc.sessionId} :
               OfSession(trunc.after, sessionId) = OfSession(trunc.before, sessionId)
        /\ trunc.index >= Len(OfSession(trunc.before, trunc.sessionId)) =>
               trunc.after = trunc.before
        /\ (trunc.step = "got" /\ trunc.of = trunc.sessionId /\ trunc.from = trunc.after) =>
               trunc.got = FirstMessages(trunc.before, trunc.sessionId, trunc.index)

\* a session of three messages, interleaved with another session's, was truncated from
\* position 1 and read back
C35_Witness ==
    /\ trunc.step = "got"
    /\ trunc.of = trunc.sessionId
    /\ trunc.from = trunc.after
    /\ trunc.index = 1
    /\ Len(OfSession(trunc.before, trunc.sessionId)) = 3
    /\ Len(trunc.got) = 1
    /\ \E k \in 2..(Len(trunc.before) - 1) : trunc.before[k].session_id # trunc.sessionId


(* ------------------------------- C31 ----------------------------------- *)

\* a call of process() has ended
CallEnded == pc = "idle" /\ callNo > 0

\* C31: the observers do not affect a call of process(): whatever they are (absent,
\* silent, raising), a call ends with an error only when its chat request was rejected,
\* as it does with silent observers, and a call with a budget of at least one iteration
\* has sent a chat request.
C31_ObserversAreAdvisory ==
    CallEnded =>
        /\ outcome = "threw" => chatFailed
        /\ 0 < maxIterations => 0 < chatRequests

====
